---- MODULE Spec2Model ----
(***************************************************************************)
(* Event ingestion, novelty detection and deduplication of the GitHub ->   *)
(* Telegram relay: the webhook handler and the poller produce events into  *)
(* one bounded channel, a single consumer goroutine runs                   *)
(* Notifier.HandleWebhookEvent on each, and the event_records table is the *)
(* deduplication ledger shared by the poller and the notifier.             *)
(*                                                                         *)
(* Strings are modelled as sequences of string tokens, so that two ids are *)
(* equal exactly when the formatted strings are equal: fmt.Sprintf is      *)
(* concatenation of tokens, a SHA or a tag name is an opaque token pair.   *)
(* Timestamps are integers; the poller's startTime is the value of the     *)
(* clock at construction.                                                  *)
(***************************************************************************)
EXTENDS Integers, Sequences, FiniteSets, TLC

\* ------------------------------------------------------------------ bounds
MaxItems == 1      \* upstream items (commits, releases, issues, PRs) that ever exist
ChanCap  == 2      \* capacity of eventsCh in the model (100 in main.go)
MaxTime  == 2      \* last clock value; the clock starts at 0, the poller at 1
MaxTicks == 2      \* steady-state passes of the poll loop
MaxHooks == 2      \* accepted webhook deliveries
MaxFetchErrs == 1  \* list calls of the poller that fail
MaxRequests == 1   \* requests served in a behaviour of the webhook endpoint specification
MaxLookupErrs == 1 \* IsEventProcessed calls that fail
MaxDays == 1       \* days the clock of the retention specification runs
MaxSweeps == 1     \* CleanupOldEvents calls
MaxKeep == 1       \* largest daysToKeep passed to CleanupOldEvents
DurationBits == 24 \* width of time.Duration in the model (64 in Go)
Second == 1000     \* clock units in a second (10^9 in Go, where the unit is the nanosecond)

\* ------------------------------------------------------- program constants
InitCommitsPerPage  == 10
InitReleasesPerPage == 5
InitIssuesPerPage   == 20
InitPRsPerPage      == 20
PollCommitsPerPage  == 10
PollReleasesPerPage == 5
PollIssuesPerPage   == 10
PollPRsPerPage      == 10

Items == 1..MaxItems
Repos == {"r1", "r2"}
Chats == {"A", "B"}

EventTypePush        == "push"
EventTypeRelease     == "release"
EventTypeIssue       == "issues"
EventTypePullRequest == "pull_request"
DefaultEvents == {EventTypePush, EventTypeRelease, EventTypeIssue, EventTypePullRequest}

NoTime == -1       \* a nil / zero timestamp: before every real instant

MinIntervalSeconds  == 60     \* NewPoller: the floor of the interval
DefaultPollInterval == 300    \* config.Load: github.poll_interval

VARIABLES
  now,        \* wall clock
  world,      \* upstream state of GitHub: item slot -> item record
  subs,       \* subscriptions table: set of rows [chat, repo, events]
  ledger,     \* event_records table: set of rows <<repo, event_type, event_id>>
  ch,         \* eventsCh: the buffered channel, a FIFO sequence
  startTime,  \* Poller.startTime
  ppc,        \* poll loop position: "init", "wait", "poll"
  prepos,     \* repositories left in the current pass (head = current)
  pfeed,      \* feed being scanned in the current repository
  pfetched,   \* whether the list call of that feed has returned
  pwork,      \* items of the fetched list not yet processed
  ticks,      \* ticker firings consumed so far
  npc,        \* consumer position: "idle" or "deliver"
  ncur,       \* event being handled by the notifier
  nsubs,      \* subscribers read at the start of the handling
  hooks,      \* webhook requests accepted so far
  sent,       \* history: successful deliveries per <<chat, fact>>
  emitted,    \* history: poller enqueues per fact
  attempts,   \* history: channel sends attempted
  dropped,    \* history: sends that took the default branch
  consumed,   \* history: events received by the consumer
  tried,      \* history: delivery attempts per <<chat, fact>>
  herrs,      \* history: handlings that returned an error
  handled,    \* history: events whose handling by the notifier has returned
  known,      \* history: items unchanged since initialization listed them (or since before startTime)
  ferrs,      \* list calls that have failed so far
  lcall,      \* history: the last RecordEvent call of the ledger-only specification
  hsecret,    \* WebhookHandler.secret
  hreq,       \* history: the last request served by the webhook endpoint, with its outcome
  lfaults,    \* IsEventProcessed calls the database will still answer with an error
  lerr,       \* history: the last IsEventProcessed call that returned an error
  pctx,       \* Poller.ctx: "live" or "cancelled"
  mpc,        \* position of main from the shutdown signal on
  chclosed,   \* whether close(eventsCh) has run
  dbclosed,   \* whether db.Close() has run
  lstamp,     \* event_records.created_at, in days: key -> day of the insert
  day,        \* the date of the wall clock, in days since the start
  lsweep,     \* history: the last CleanupOldEvents call
  pcalls,     \* history: the list calls of the current steady-state pass, in order
  ppast,      \* history: the earlier steady-state passes in which a list call failed
  backlog,    \* history: items that existed when their repository was subscribed after the initialization
  qin,        \* history: the events placed on the channel, in order
  qout,       \* history: the events the consumer received, in order
  pscans,     \* history: the repository scans of the poller begun and not finished
  pdrops,     \* history: the facts of the events the poller dropped on a full channel
  hpc,        \* a webhook request in flight: "idle", or "busy" from its accept to its enqueue step
  cfgInterval,\* cfg.GitHub.PollInterval, in seconds
  pinterval   \* Poller.interval, in clock units

vars == <<now, world, subs, ledger, ch, startTime, ppc, prepos, pfeed, pfetched,
          pwork, ticks, npc, ncur, nsubs, hooks, sent, emitted, attempts,
          dropped, consumed, tried, herrs, handled, known, ferrs, lcall, hsecret, hreq,
          lfaults, lerr, pctx, mpc, chclosed, dbclosed, lstamp, day, lsweep, pcalls, ppast,
          backlog, qin, qout, pscans, pdrops, hpc, cfgInterval, pinterval>>

hookVars  == <<hsecret, hreq>>
faultVars == <<lfaults, lerr>>
stopVars  == <<pctx, mpc, chclosed, dbclosed, hpc>>
storeVars == <<lstamp, day, lsweep>>
traceVars == <<pcalls, ppast, backlog, qin, qout, pscans, pdrops>>
cfgVars   == <<cfgInterval, pinterval>>
extVars   == <<faultVars, stopVars, storeVars, traceVars, cfgVars>>

\* ------------------------------------------------------------------ helpers
Min(a, b) == IF a < b THEN a ELSE b

RECURSIVE DescSeq(_)
\* the elements of a finite set of integers, largest first
DescSeq(S) ==
  IF S = {} THEN <<>>
  ELSE LET m == CHOOSE x \in S : \A y \in S : y <= x
       IN  <<m>> \o DescSeq(S \ {m})

\* the first page of a list call with ListOptions{PerPage: n}
Page(list, n) == SubSeq(list, 1, Min(n, Len(list)))

RECURSIVE Flatten(_)
Flatten(ss) == IF ss = <<>> THEN <<>> ELSE Head(ss) \o Flatten(Tail(ss))

Range(f) == {f[x] : x \in DOMAIN f}

\* history counters saturate at 2: "more than once" is all that is asked of them
Bump(f, k) == IF k \in DOMAIN f THEN [f EXCEPT ![k] = Min(@ + 1, 2)] ELSE f @@ (k :> 1)
Count(f, k) == IF k \in DOMAIN f THEN f[k] ELSE 0

\* ---------------------------------------------------------------- durations
\* time.Duration is a signed integer of DurationBits bits: arithmetic wraps around
Wrap(x) == ((x + 2^(DurationBits - 1)) % 2^DurationBits) - 2^(DurationBits - 1)

\* time.Duration(n) * time.Second
Seconds(n) == Wrap(n * Second)

\* NewPoller: the interval of the ticker
NewPollerInterval(intervalSeconds) ==
  LET interval == Seconds(intervalSeconds)
  IN  IF interval < MinIntervalSeconds * Second THEN MinIntervalSeconds * Second ELSE interval

\* ------------------------------------------------------------------ strings
NumStr(n) == ToString(n)       \* %d
SHA(i)    == <<"sha", NumStr(i)>>   \* the SHA of the commit in slot i
Tag(i)    == <<"tag", NumStr(i)>>   \* the tag name of the release in slot i

\* --------------------------------------------------------- upstream (GitHub)
Absent == [kind |-> "absent", repo |-> "", created |-> NoTime, state |-> "",
           closedAt |-> NoTime, merged |-> FALSE, draft |-> FALSE, updated |-> NoTime]

NewItem(k, r, t, d) ==
  [kind |-> k, repo |-> r, created |-> IF d THEN NoTime ELSE t,
   state |-> IF k \in {EventTypeIssue, EventTypePullRequest} THEN "open" ELSE "",
   closedAt |-> NoTime, merged |-> FALSE, draft |-> d, updated |-> t]

ClosedItem(it, t, m) == [it EXCEPT !.state = "closed", !.closedAt = t, !.merged = m, !.updated = t]

ItemKinds == {EventTypePush, EventTypeRelease, EventTypeIssue, EventTypePullRequest}

\* what can exist upstream before the poller is constructed (every stamp is 0)
PreItems ==
  {NewItem(k, r, 0, FALSE) : k \in ItemKinds, r \in Repos}
  \cup {NewItem(EventTypeRelease, r, 0, TRUE) : r \in Repos}
  \cup {ClosedItem(NewItem(EventTypeIssue, r, 0, FALSE), 0, FALSE) : r \in Repos}
  \cup {ClosedItem(NewItem(EventTypePullRequest, r, 0, FALSE), 0, m) : r \in Repos, m \in BOOLEAN}

Present(w) == {i \in Items : w[i].kind # "absent"}
\* slots fill in order, so that issue and pull-request numbers follow creation order
NextSlot(w) == IF Present(w) = Items THEN 0 ELSE CHOOSE i \in Items \ Present(w) : \A j \in Items \ Present(w) : i <= j

OfKind(w, r, ks) == {i \in Items : w[i].kind \in ks /\ w[i].repo = r}

\* ------------------------------------------------------------------ events
NoEvent == [type |-> "none", repo |-> "", num |-> 0, action |-> "", merged |-> FALSE, src |-> ""]

\* WebhookEvent with its payload: After / TagName / Number are derived from num
Event(t, r, n, a, m, s) == [type |-> t, repo |-> r, num |-> n, action |-> a, merged |-> m, src |-> s]

\* the upstream fact an event reports (history only)
Fact(e) ==
  <<e.repo, e.type, e.num,
    IF e.type = EventTypePullRequest /\ e.action = "closed" /\ e.merged THEN "merged" ELSE e.action>>

\* ------------------------------------------------------------------ ledger
\* event_records as a bag of rows: <<repo_owner/repo_name, event_type, event_id>> -> number
\* of rows holding it (the autoincrement id and created_at are not modelled)
EmptyTable == <<>>
RowCount(rows, k) == IF k \in DOMAIN rows THEN rows[k] ELSE 0

\* variant: the membership test compares against the wrong count
IsEventProcessedOffByOne(rows, r, t, id) == RowCount(rows, <<r, t, id>>) > 1

\* SELECT COUNT(*) ... ; return count > 0
IsEventProcessed(rows, r, t, id) == RowCount(rows, <<r, t, id>>) > 0

\* variant: a plain INSERT, which the UNIQUE constraint rejects on a held key
RecordEventPlainInsert(rows, r, t, id) ==
  IF RowCount(rows, <<r, t, id>>) > 0
  THEN [rows |-> rows, err |-> TRUE]
  ELSE [rows |-> rows @@ (<<r, t, id>> :> 1), err |-> FALSE]

\* variant: an insert that is lost
RecordEventLost(rows, r, t, id) == [rows |-> rows, err |-> FALSE]

\* INSERT OR IGNORE under UNIQUE(repo_owner, repo_name, event_type, event_id)
RecordEvent(rows, r, t, id) ==
  IF RowCount(rows, <<r, t, id>>) > 0
  THEN [rows |-> rows, err |-> FALSE]
  ELSE [rows |-> rows @@ (<<r, t, id>> :> 1), err |-> FALSE]

\* variant: a lookup that reports a key as processed when the query fails
IsEventProcessedResultFailClosed(rows, r, t, id, fail) ==
  [processed |-> fail \/ IsEventProcessed(rows, r, t, id), err |-> fail]

\* IsEventProcessed with its error result: count is still 0 when db.Get fails,
\* so the call returns (false, err)
\* variant: a lookup that never reports a key
IsEventProcessedResultBlind(rows, r, t, id, fail) ==
  [processed |-> FALSE, err |-> fail]

IsEventProcessedResult(rows, r, t, id, fail) ==
  [processed |-> IF fail THEN FALSE ELSE IsEventProcessed(rows, r, t, id), err |-> fail]

\* the outcomes the database can give to the next lookup
LookupFails(n) == IF n > 0 THEN BOOLEAN ELSE {FALSE}

\* created_at DATETIME DEFAULT CURRENT_TIMESTAMP: set when the row is inserted
Stamp(stamps, rows, k, today) ==
  IF RowCount(rows, k) > 0 THEN stamps ELSE stamps @@ (k :> today)

\* variant: a sweep that also deletes the rows that are exactly daysToKeep days old
CleanupOldEventsInclusive(rows, stamps, today, daysToKeep) ==
  LET old == IF daysToKeep < 0 THEN {}
             ELSE {k \in DOMAIN rows : stamps[k] <= today - daysToKeep}
  IN  [rows   |-> [k \in DOMAIN rows \ old |-> rows[k]],
       stamps |-> [k \in DOMAIN stamps \ old |-> stamps[k]],
       n      |-> Cardinality(old)]

\* DELETE FROM event_records WHERE created_at < datetime('now', '-' || ? || ' days'):
\* with a negative argument the modifier is '--N days', which SQLite does not
\* accept, so datetime() is NULL and the comparison selects no row
CleanupOldEvents(rows, stamps, today, daysToKeep) ==
  LET old == IF daysToKeep < 0 THEN {}
             ELSE {k \in DOMAIN rows : stamps[k] < today - daysToKeep}
  IN  [rows   |-> [k \in DOMAIN rows \ old |-> rows[k]],
       stamps |-> [k \in DOMAIN stamps \ old |-> stamps[k]],
       n      |-> Cardinality(old)]

\* ------------------------------------------------------------------ channel
\* variant: a send that always places the event, as on an unbounded queue
SendUnbounded(c, e) == Append(c, e)

\* variant: a send that places the event in front of the waiting ones
SendInFront(c, e) == IF Len(c) < ChanCap THEN <<e>> \o c ELSE c

\* select { case ch <- e: ... default: ... }
Send(c, e) == IF Len(c) < ChanCap THEN Append(c, e) ELSE c

\* ------------------------------------------------------------ subscriptions
\* variant: a query without the WHERE clause on the repository
GetSubscriptionsByRepoAll(tbl, r) == tbl

GetSubscriptionsByRepo(tbl, r) == {row \in tbl : row.repo = r}
GetAllSubscribedRepos(tbl) == {row.repo : row \in tbl}
Orders(S) == {q \in [1..Cardinality(S) -> S] : Range(q) = S}

\* ------------------------------------------------------------------ notifier
generateEventID(e) ==
  CASE e.type = EventTypePush        -> SHA(e.num)
    [] e.type = EventTypeRelease     -> Tag(e.num)
    [] e.type = EventTypeIssue       -> <<NumStr(e.num), "-", e.action>>
    [] e.type = EventTypePullRequest -> <<NumStr(e.num), "-", e.action>>
    [] OTHER                         -> <<e.type, "-">>

\* variant: a filter that lets every kind through
isEventEnabledAll(row, t) == TRUE

isEventEnabled(row, t) == (~row.events.ok) \/ (t \in row.events.kinds)

\* ------------------------------------------------------------------ poller
\* One unit of work of a scan: a RecordEvent call (initialization) or a
\* check-then-send (steady state) for one derived key.
RecOp(t, id)      == [op |-> "record", type |-> t, id |-> id, ev |-> NoEvent]
EmitOp(t, id, ev) == [op |-> "emit", type |-> t, id |-> id, ev |-> ev]

PushID(i)          == SHA(i)
ReleaseID(i)       == <<"release-">> \o Tag(i)
IssueID(n, phase)  == <<"issue-", NumStr(n), "-", phase>>
PRID(n, phase)     == <<"pr-", NumStr(n), "-", phase>>

\* the four list calls, newest first
ListCommits(w, r, since, perPage) ==
  Page(DescSeq({i \in OfKind(w, r, {EventTypePush}) : w[i].created >= since}), perPage)
ListReleases(w, r, perPage) ==
  Page(DescSeq(OfKind(w, r, {EventTypeRelease})), perPage)
\* the issues endpoint also returns pull requests; Since filters on the update time
ListIssues(w, r, since, perPage) ==
  Page(DescSeq({i \in OfKind(w, r, {EventTypeIssue, EventTypePullRequest}) : w[i].updated >= since}), perPage)
ListPRs(w, r, perPage) ==
  Page(DescSeq(OfKind(w, r, {EventTypePullRequest})), perPage)

\* variant: an initialization that lists the commits and seeds none of them
InitCommitOpsUnseeded(w, r) == <<>>

\* recordExistingEvents, one feed at a time
InitCommitOps(w, r) ==
  Flatten([k \in DOMAIN ListCommits(w, r, NoTime, InitCommitsPerPage) |->
    LET i == ListCommits(w, r, NoTime, InitCommitsPerPage)[k]
    IN  <<RecOp(EventTypePush, PushID(i))>>])

InitReleaseOps(w, r) ==
  Flatten([k \in DOMAIN ListReleases(w, r, InitReleasesPerPage) |->
    LET i == ListReleases(w, r, InitReleasesPerPage)[k]
    IN  IF w[i].draft THEN <<>> ELSE <<RecOp(EventTypeRelease, ReleaseID(i))>>])

\* variant: an initialization that seeds the created key of an issue only
InitIssueOpsCreatedOnly(w, r) ==
  Flatten([k \in DOMAIN ListIssues(w, r, NoTime, InitIssuesPerPage) |->
    LET i == ListIssues(w, r, NoTime, InitIssuesPerPage)[k]
    IN  IF w[i].kind = EventTypePullRequest THEN <<>>
        ELSE <<RecOp(EventTypeIssue, IssueID(i, "created"))>>])

InitIssueOps(w, r) ==
  Flatten([k \in DOMAIN ListIssues(w, r, NoTime, InitIssuesPerPage) |->
    LET i == ListIssues(w, r, NoTime, InitIssuesPerPage)[k]
    IN  IF w[i].kind = EventTypePullRequest THEN <<>>
        ELSE <<RecOp(EventTypeIssue, IssueID(i, "created"))>>
             \o (IF w[i].state = "closed"
                 THEN <<RecOp(EventTypeIssue, IssueID(i, "closed"))>> ELSE <<>>)])

InitPROps(w, r) ==
  Flatten([k \in DOMAIN ListPRs(w, r, InitPRsPerPage) |->
    LET i == ListPRs(w, r, InitPRsPerPage)[k]
    IN  <<RecOp(EventTypePullRequest, PRID(i, "created"))>>
        \o (IF w[i].state = "closed"
            THEN <<RecOp(EventTypePullRequest,
                         PRID(i, IF w[i].merged THEN "merged" ELSE "closed"))>>
            ELSE <<>>)])

\* pollCommits .. pollPullRequests: what the loop over the fetched list will check
PollCommitOps(w, r, st) ==
  Flatten([k \in DOMAIN ListCommits(w, r, st, PollCommitsPerPage) |->
    LET i == ListCommits(w, r, st, PollCommitsPerPage)[k]
    IN  <<EmitOp(EventTypePush, PushID(i), Event(EventTypePush, r, i, "", FALSE, "poller"))>>])

\* variant: a release scan without the comparison of PublishedAt to startTime
PollReleaseOpsNoEpoch(w, r, st) ==
  Flatten([k \in DOMAIN ListReleases(w, r, PollReleasesPerPage) |->
    LET i == ListReleases(w, r, PollReleasesPerPage)[k]
    IN  IF w[i].draft THEN <<>>
        ELSE <<EmitOp(EventTypeRelease, ReleaseID(i),
                      Event(EventTypeRelease, r, i, "published", FALSE, "poller"))>>])

PollReleaseOps(w, r, st) ==
  Flatten([k \in DOMAIN ListReleases(w, r, PollReleasesPerPage) |->
    LET i == ListReleases(w, r, PollReleasesPerPage)[k]
    IN  IF w[i].draft \/ w[i].created < st THEN <<>>
        ELSE <<EmitOp(EventTypeRelease, ReleaseID(i),
                      Event(EventTypeRelease, r, i, "published", FALSE, "poller"))>>])

notifyIssueClosed(r, i) ==
  <<EmitOp(EventTypeIssue, IssueID(i, "closed"),
           Event(EventTypeIssue, r, i, "closed", FALSE, "poller"))>>

\* variant: a steady-state scan that looks up issue-N-opened, a key the
\* initialization does not write
PollIssueOpsOpenedKey(w, r, st) ==
  Flatten([k \in DOMAIN ListIssues(w, r, st, PollIssuesPerPage) |->
    LET i == ListIssues(w, r, st, PollIssuesPerPage)[k]
    IN  IF w[i].kind = EventTypePullRequest THEN <<>>
        ELSE IF w[i].created < st
        THEN (IF w[i].state = "closed" /\ w[i].closedAt # NoTime /\ w[i].closedAt > st
              THEN notifyIssueClosed(r, i) ELSE <<>>)
        ELSE <<EmitOp(EventTypeIssue, IssueID(i, "opened"),
                      Event(EventTypeIssue, r, i, "opened", FALSE, "poller"))>>])

PollIssueOps(w, r, st) ==
  Flatten([k \in DOMAIN ListIssues(w, r, st, PollIssuesPerPage) |->
    LET i == ListIssues(w, r, st, PollIssuesPerPage)[k]
    IN  IF w[i].kind = EventTypePullRequest THEN <<>>
        ELSE IF w[i].created < st
        THEN (IF w[i].state = "closed" /\ w[i].closedAt # NoTime /\ w[i].closedAt > st
              THEN notifyIssueClosed(r, i) ELSE <<>>)
        ELSE <<EmitOp(EventTypeIssue, IssueID(i, "created"),
                      Event(EventTypeIssue, r, i, "opened", FALSE, "poller"))>>])

\* variant: a notification that reports every terminal state as closed
notifyPRClosedNeverMerged(r, i, merged) ==
  <<EmitOp(EventTypePullRequest, PRID(i, "closed"),
           Event(EventTypePullRequest, r, i, "closed", FALSE, "poller"))>>

notifyPRClosed(r, i, merged) ==
  <<EmitOp(EventTypePullRequest, PRID(i, IF merged THEN "merged" ELSE "closed"),
           Event(EventTypePullRequest, r, i, IF merged THEN "merged" ELSE "closed",
                 merged, "poller"))>>

PollPROps(w, r, st) ==
  Flatten([k \in DOMAIN ListPRs(w, r, PollPRsPerPage) |->
    LET i == ListPRs(w, r, PollPRsPerPage)[k]
    IN  IF w[i].created < st
        THEN (IF w[i].state = "closed" /\ w[i].closedAt # NoTime /\ w[i].closedAt > st
              THEN notifyPRClosed(r, i, w[i].merged) ELSE <<>>)
        ELSE <<EmitOp(EventTypePullRequest, PRID(i, "created"),
                      Event(EventTypePullRequest, r, i, "opened", w[i].merged, "poller"))>>])

Feeds == <<"commits", "releases", "issues", "prs">>
NextFeed(f) == CASE f = "commits" -> "releases" [] f = "releases" -> "issues" [] OTHER -> "prs"

\* variant: an initialization that runs the steady-state scan
FeedOpsPollAtInit(phase, f, w, r, st) ==
  CASE f = "commits"  -> PollCommitOps(w, r, st)
    [] f = "releases" -> PollReleaseOps(w, r, st)
    [] f = "issues"   -> PollIssueOps(w, r, st)
    [] OTHER          -> PollPROps(w, r, st)

FeedOps(phase, f, w, r, st) ==
  IF phase = "init"
  THEN CASE f = "commits"  -> InitCommitOps(w, r)
         [] f = "releases" -> InitReleaseOps(w, r)
         [] f = "issues"   -> InitIssueOps(w, r)
         [] OTHER          -> InitPROps(w, r)
  ELSE CASE f = "commits"  -> PollCommitOps(w, r, st)
         [] f = "releases" -> PollReleaseOps(w, r, st)
         [] f = "issues"   -> PollIssueOps(w, r, st)
         [] OTHER          -> PollPROps(w, r, st)

\* --------------------------------------------------------------- initial state
SubRow(c, r, ks) == [chat |-> c, repo |-> r, events |-> [ok |-> TRUE, kinds |-> ks]]

\* the subscriptions the run starts with
InitSubs ==
  { {SubRow("A", "r1", DefaultEvents), SubRow("B", "r1", DefaultEvents)} }

\* upstream histories that predate the poller: slots are filled in order
InitWorlds ==
  {w \in [Items -> PreItems \cup {Absent}] :
     \A i \in Items : w[i] # Absent => \A j \in 1..(i - 1) : w[j] # Absent}

NoCall == [key |-> <<>>, before |-> <<>>, err |-> FALSE, n |-> 0]
NoLookupErr == [by |-> "", key |-> <<>>]
NoSweep == [calls |-> 0, days |-> 0, n |-> 0]

\* no request served yet
NoRequest ==
  [method |-> "", etype |-> "", body |-> [form |-> "", action |-> ""],
   sig |-> [prefix |-> "", hex |-> [valid |-> TRUE, case |-> "lower", bytes |-> <<>>]],
   status |-> 0, ev |-> NoEvent, full |-> FALSE, queued |-> FALSE]

WebhookSecret == "s3cret"              \* cfg.GitHub.WebhookSecret when it is set
Secrets       == {"", WebhookSecret}

\* the state after construction, the subscriptions and the webhook secret apart
InitBase ==
  /\ now = 1
  /\ startTime = 1               \* NewPoller: startTime = time.Now()
  /\ world \in InitWorlds
  /\ ferrs = 0
  /\ ledger = EmptyTable
  /\ ch = <<>>
  /\ ppc = "init" /\ prepos = <<>> /\ pfeed = "start" /\ pfetched = FALSE /\ pwork = <<>>
  /\ ticks = 0
  /\ npc = "idle" /\ ncur = NoEvent /\ nsubs = {}
  /\ hooks = 0
  /\ sent = <<>> /\ emitted = <<>>
  /\ attempts = 0 /\ dropped = 0 /\ consumed = 0
  /\ tried = <<>> /\ herrs = 0
  /\ handled = {}
  /\ known = Present(world)
  /\ lcall = NoCall
  /\ hreq = NoRequest
  /\ lerr = NoLookupErr
  /\ pctx = "live" /\ mpc = "run" /\ chclosed = FALSE /\ dbclosed = FALSE
  /\ lstamp = <<>> /\ day = 0 /\ lsweep = NoSweep
  /\ pcalls = <<>> /\ ppast = {} /\ backlog = {}
  /\ qin = <<>> /\ qout = <<>>
  /\ pscans = {} /\ pdrops = {} /\ hpc = "idle"

\* NewPoller(ghClient, store, eventsCh, cfg.GitHub.PollInterval) with the default interval
Constructed == cfgInterval = DefaultPollInterval /\ pinterval = NewPollerInterval(cfgInterval)

Init == InitBase /\ subs \in InitSubs /\ hsecret = "" /\ lfaults = 0 /\ Constructed

pollerVars   == <<ppc, prepos, pfeed, pfetched, pwork, ticks>>
notifierVars == <<npc, ncur, nsubs, sent, tried, herrs, consumed, handled>>
chanHist     == <<attempts, dropped>>

\* the history of a send attempt on channel c
SendHist(c) ==
  /\ attempts' = Min(attempts + 1, ChanCap + 1)
  /\ dropped' = IF Len(c) < ChanCap THEN dropped ELSE 1

\* ------------------------------------------------------------ upstream activity
Tock ==
  /\ now < MaxTime
  /\ now' = now + 1
  /\ UNCHANGED <<world, subs, ledger, ch, startTime, pollerVars, notifierVars, hooks,
                 emitted, chanHist, known, ferrs, lcall, hookVars, extVars>>

Create ==
  /\ NextSlot(world) # 0
  /\ \E k \in ItemKinds, r \in Repos, d \in BOOLEAN :
       /\ d => k = EventTypeRelease
       /\ world' = [world EXCEPT ![NextSlot(world)] = NewItem(k, r, now, d)]
  /\ UNCHANGED <<now, subs, ledger, ch, startTime, pollerVars, notifierVars, hooks,
                 emitted, chanHist, known, ferrs, lcall, hookVars, extVars>>

Close ==
  /\ \E i \in Present(world), m \in BOOLEAN :
       /\ world[i].kind \in {EventTypeIssue, EventTypePullRequest}
       /\ world[i].state = "open"
       /\ m => world[i].kind = EventTypePullRequest
       /\ world' = [world EXCEPT ![i] = ClosedItem(@, now, m)]
       /\ known' = known \ {i}
  /\ UNCHANGED <<now, subs, ledger, ch, startTime, pollerVars, notifierVars, hooks,
                 emitted, chanHist, ferrs, lcall, hookVars, extVars>>

Publish ==
  /\ \E i \in Present(world) :
       /\ world[i].kind = EventTypeRelease /\ world[i].draft
       /\ world' = [world EXCEPT ![i].draft = FALSE, ![i].created = now, ![i].updated = now]
       /\ known' = known \ {i}
  /\ UNCHANGED <<now, subs, ledger, ch, startTime, pollerVars, notifierVars, hooks,
                 emitted, chanHist, ferrs, lcall, hookVars, extVars>>

\* ------------------------------------------------------------------ poll loop
\* the items a list call of the initialization returned (history)
InitListed(f, w, r) ==
  CASE f = "commits"  -> Range(ListCommits(w, r, NoTime, InitCommitsPerPage))
    [] f = "releases" -> Range(ListReleases(w, r, InitReleasesPerPage))
    [] f = "issues"   -> {i \in Range(ListIssues(w, r, NoTime, InitIssuesPerPage)) : w[i].kind = EventTypeIssue}
    [] OTHER          -> Range(ListPRs(w, r, InitPRsPerPage))

\* variant: a pass that is given up when a list call fails
FeedDoneAbortOnError(err) ==
  /\ pfetched' = FALSE
  /\ pwork' = <<>>
  /\ IF err \/ (pfeed = "prs" /\ (Tail(prepos) = <<>> \/ pctx = "cancelled"))
     THEN prepos' = <<>> /\ pfeed' = "none" /\ ppc' = "wait"
     ELSE IF pfeed = "prs"
     THEN prepos' = Tail(prepos) /\ pfeed' = "commits" /\ ppc' = ppc
     ELSE prepos' = prepos /\ pfeed' = NextFeed(pfeed) /\ ppc' = ppc

\* the current feed is finished, because its list call failed (err) or its list
\* is exhausted: next feed, next repository, or back to the ticker
FeedDone(err) ==
  /\ pfetched' = FALSE
  /\ pwork' = <<>>
  /\ IF pfeed = "prs"
     THEN IF Tail(prepos) = <<>> \/ pctx = "cancelled"      \* case <-p.ctx.Done(): return
          THEN prepos' = <<>> /\ pfeed' = "none" /\ ppc' = "wait"
          ELSE prepos' = Tail(prepos) /\ pfeed' = "commits" /\ ppc' = ppc
     ELSE /\ prepos' = prepos
          /\ pfeed' = NextFeed(pfeed)
          /\ ppc' = ppc

\* initializeRepos / pollAllRepos up to the first repository: GetAllSubscribedRepos
\* returns the repositories in an order the query leaves open
StartPass(phase) ==
  LET repos == GetAllSubscribedRepos(subs)
  IN  IF repos = {} \/ pctx = "cancelled"                    \* case <-p.ctx.Done(): return
      THEN ppc' = "wait" /\ prepos' = <<>> /\ pfeed' = "none"
      ELSE \E q \in Orders(repos) : ppc' = phase /\ prepos' = q /\ pfeed' = "commits"

initializeReposStep ==
  /\ ppc = "init" /\ pfeed = "start"
  /\ StartPass("init")
  /\ UNCHANGED <<pfetched, pwork, ticks>>
  /\ UNCHANGED <<now, world, subs, ledger, ch, startTime, notifierVars, hooks, emitted,
                 chanHist, known, ferrs, lcall, hookVars, faultVars, stopVars, storeVars, cfgVars>>

initializeRepos == initializeReposStep /\ UNCHANGED traceVars

\* variant: a loop that takes a tick while a pass is still running
AtSelectAnyTime(pc) == pc \in {"init", "poll", "wait"}

\* pollLoop is at its select: initializeRepos has returned, and so has every
\* pollAllRepos call (both are plain calls of the loop's goroutine)
AtSelect(pc) == pc = "wait"

\* variant: a loop whose select has no case for the cancellation
SelectCasesTickOnly(ctx) == {"tick"}

\* the cases of the select in pollLoop that can be taken: the ticker can fire at
\* any time, and the runtime chooses among the cases that are ready
SelectCases(ctx) == IF ctx = "cancelled" THEN {"done", "tick"} ELSE {"tick"}

\* case <-p.ctx.Done(): return, and the deferred ticker.Stop() and p.wg.Done()
pollLoopExit ==
  /\ AtSelect(ppc) /\ "done" \in SelectCases(pctx)
  /\ ppc' = "exited"
  /\ UNCHANGED <<prepos, pfeed, pfetched, pwork, ticks>>
  /\ UNCHANGED <<now, world, subs, ledger, ch, startTime, notifierVars, hooks, emitted,
                 chanHist, known, ferrs, lcall, hookVars, extVars>>

\* case <-ticker.C: p.pollAllRepos()
pollAllReposStep ==
  /\ AtSelect(ppc) /\ "tick" \in SelectCases(pctx) /\ ticks < MaxTicks
  /\ ticks' = ticks + 1
  /\ StartPass("poll")
  /\ UNCHANGED <<pfetched, pwork>>
  /\ UNCHANGED <<now, world, subs, ledger, ch, startTime, notifierVars, hooks, emitted,
                 chanHist, known, ferrs, lcall, hookVars, faultVars, stopVars, storeVars, cfgVars>>

pollAllRepos == pollAllReposStep /\ UNCHANGED traceVars

\* one list call of recordExistingEvents or of pollCommits .. pollPullRequests;
\* on an error the feed is skipped
FetchStep ==
  /\ ppc \in {"init", "poll"} /\ pfeed \in Range(Feeds) /\ ~pfetched
  /\ \E ok \in (IF pctx = "cancelled" THEN {FALSE} ELSE BOOLEAN) :   \* ctx derives from p.ctx
       LET r   == Head(prepos)
           ops == IF ok THEN FeedOps(ppc, pfeed, world, r, startTime) ELSE <<>>
       IN  /\ ok \/ pctx = "cancelled" \/ ferrs < MaxFetchErrs
           /\ ferrs' = IF ok \/ pctx = "cancelled" THEN ferrs ELSE ferrs + 1
           /\ known' = IF ok /\ ppc = "init" THEN known \cup InitListed(pfeed, world, r) ELSE known
           /\ IF ops = <<>>
              THEN FeedDone(~ok)
              ELSE pwork' = ops /\ pfetched' = TRUE /\ UNCHANGED <<ppc, prepos, pfeed>>
  /\ UNCHANGED <<now, world, subs, ledger, ch, startTime, ticks, notifierVars, hooks,
                 emitted, chanHist, lcall, hookVars, faultVars, stopVars, storeVars, cfgVars>>

Fetch == FetchStep /\ UNCHANGED traceVars

\* variant: a steady-state iteration that records the key it has just sent
RowsAfterSendRecorded(rows, r, t, id) == RecordEvent(rows, r, t, id).rows

\* event_records after the select of a steady-state iteration: pollCommits ..
\* notifyPRClosed make no store call after IsEventProcessed
RowsAfterSend(rows, r, t, id) == rows

\* the body of one loop iteration: RecordEvent (initialization), or
\* IsEventProcessed followed by the non-blocking send (steady state)
PollerStepBody ==
  /\ ppc \in {"init", "poll"} /\ pfetched /\ pwork # <<>>
  /\ LET op == Head(pwork)
         r  == Head(prepos)
     IN  IF op.op = "record"
         THEN /\ ledger' = RecordEvent(ledger, r, op.type, op.id).rows
              /\ lstamp' = Stamp(lstamp, ledger, <<r, op.type, op.id>>, day)
              /\ UNCHANGED <<ch, emitted, chanHist, faultVars>>
         ELSE \E fail \in LookupFails(lfaults) :
                /\ lfaults' = IF fail THEN lfaults - 1 ELSE lfaults
                /\ lerr' = IF fail THEN [by |-> "poller", key |-> <<r, op.type, op.id>>] ELSE lerr
                /\ IF IsEventProcessedResult(ledger, r, op.type, op.id, fail).processed
                   THEN UNCHANGED <<ledger, lstamp, ch, emitted, chanHist>>
                   ELSE /\ ch' = Send(ch, op.ev)
                        /\ SendHist(ch)
                        /\ emitted' = IF Len(ch) < ChanCap THEN Bump(emitted, Fact(op.ev)) ELSE emitted
                        /\ ledger' = RowsAfterSend(ledger, r, op.type, op.id)
                        /\ UNCHANGED lstamp
  /\ IF Tail(pwork) = <<>>
     THEN FeedDone(FALSE)
     ELSE pwork' = Tail(pwork) /\ UNCHANGED <<ppc, prepos, pfeed, pfetched>>
  /\ UNCHANGED <<now, world, subs, startTime, ticks, notifierVars, hooks, known, ferrs, lcall, hookVars,
                 stopVars, day, lsweep, cfgVars>>

PollerStep == PollerStepBody /\ UNCHANGED traceVars

\* ------------------------------------------------------------------ webhook
\* the action of the delivery GitHub makes for the latest change of an item
HookAction(it) == IF it.state = "closed" THEN "closed" ELSE "opened"

\* the events parseEvent returns for a delivery about upstream item i
HookEvents(w, i) ==
  CASE w[i].kind = EventTypePush ->
         {Event(EventTypePush, w[i].repo, i, "", FALSE, "webhook")}
    [] w[i].kind = EventTypeRelease ->
         IF w[i].draft THEN {}
         ELSE {Event(EventTypeRelease, w[i].repo, i, "published", FALSE, "webhook")}
    [] w[i].kind = EventTypeIssue ->
         {Event(EventTypeIssue, w[i].repo, i, HookAction(w[i]), FALSE, "webhook")}
    [] w[i].kind = EventTypePullRequest ->
         {Event(EventTypePullRequest, w[i].repo, i, HookAction(w[i]),
                w[i].state = "closed" /\ w[i].merged, "webhook")}
    [] OTHER -> {}

\* ServeHTTP for a request that passes verification and parses to an event
ServeHTTP ==
  /\ hooks < MaxHooks
  /\ \E i \in Present(world) : \E e \in HookEvents(world, i) :
       /\ ch' = Send(ch, e)
       /\ SendHist(ch)
  /\ hooks' = hooks + 1
  /\ UNCHANGED <<now, world, subs, ledger, startTime, pollerVars, notifierVars, emitted,
                 known, ferrs, lcall, hookVars, extVars>>

\* ------------------------------------------------------------------ consumer
buildMessage(e) == e.type \in DefaultEvents     \* whether the message is non-empty

RECURSIVE FanOut(_, _, _)
\* variant: a loop that returns the error of the first failed delivery
FanOutAbort(rows, t, fail) ==
  IF rows = <<>> THEN [attempted |-> {}, delivered |-> {}, err |-> FALSE]
  ELSE LET row  == Head(rows)
           rest == FanOut(Tail(rows), t, fail)
       IN  IF isEventEnabled(row, t)
           THEN IF row.chat \in fail
                THEN [attempted |-> {row.chat}, delivered |-> {}, err |-> TRUE]
                ELSE [attempted |-> {row.chat} \cup rest.attempted,
                      delivered |-> {row.chat} \cup rest.delivered,
                      err |-> rest.err]
           ELSE rest

\* the loop over subs of HandleWebhookEvent: rows in query order, `fail` the
\* chats whose bot.Send returns an error
FanOut(rows, t, fail) ==
  IF rows = <<>> THEN [attempted |-> {}, delivered |-> {}, err |-> FALSE]
  ELSE LET row  == Head(rows)
           rest == FanOut(Tail(rows), t, fail)
       IN  IF isEventEnabled(row, t)
           THEN [attempted |-> {row.chat} \cup rest.attempted,
                 delivered |-> (IF row.chat \in fail THEN {} ELSE {row.chat}) \cup rest.delivered,
                 err |-> rest.err]
           ELSE rest

BumpAll(f, K) == [k \in DOMAIN f \cup K |-> IF k \in K THEN Min(Count(f, k) + 1, 2) ELSE f[k]]

\* for event := range eventsCh: HandleWebhookEvent up to the ledger check
HandleReceiveStep ==
  /\ npc = "idle" /\ ch # <<>>
  /\ LET e    == Head(ch)
         rows == GetSubscriptionsByRepo(subs, e.repo)
     IN  \E fail \in (IF rows = {} \/ dbclosed THEN {FALSE} ELSE LookupFails(lfaults)) :
           LET out == IF dbclosed THEN "dberr"         \* GetSubscriptionsByRepo: database is closed
                      ELSE IF rows = {} THEN "nosubs"
                      ELSE IF IsEventProcessedResult(ledger, e.repo, e.type,
                                                     generateEventID(e), fail).processed
                      THEN "processed"
                      ELSE IF ~buildMessage(e) THEN "nomessage"
                      ELSE "deliver"
           IN  /\ lfaults' = IF fail THEN lfaults - 1 ELSE lfaults
               /\ lerr' = IF fail THEN [by |-> "notifier",
                                        key |-> <<e.repo, e.type, generateEventID(e)>>]
                          ELSE lerr
               /\ ch' = Tail(ch)
               /\ consumed' = 1
               /\ herrs' = IF out = "dberr" THEN 1 ELSE herrs
               /\ IF out = "deliver"
                  THEN /\ npc' = "deliver" /\ ncur' = e /\ nsubs' = rows
                       /\ UNCHANGED handled
                  ELSE /\ handled' = handled \cup {e}
                       /\ UNCHANGED <<npc, ncur, nsubs>>
  /\ UNCHANGED <<now, world, subs, ledger, startTime, pollerVars, hooks, sent, tried, emitted,
                 chanHist, known, ferrs, lcall, hookVars, stopVars, storeVars, cfgVars>>

HandleReceive == HandleReceiveStep /\ UNCHANGED traceVars

\* the fan-out loop and the RecordEvent that follows it
HandleDeliver ==
  /\ npc = "deliver"
  /\ \E q \in Orders(nsubs), fail \in SUBSET {row.chat : row \in nsubs} :
       LET res == FanOut(q, ncur.type, fail)
           rec == IF dbclosed THEN [rows |-> ledger, err |-> TRUE]     \* database is closed
                  ELSE RecordEvent(ledger, ncur.repo, ncur.type, generateEventID(ncur))
       IN  /\ sent' = BumpAll(sent, {<<c, Fact(ncur)>> : c \in res.delivered})
           /\ ledger' = rec.rows
           /\ lstamp' = IF dbclosed THEN lstamp
                        ELSE Stamp(lstamp, ledger, <<ncur.repo, ncur.type, generateEventID(ncur)>>, day)
           /\ tried' = BumpAll(tried, {<<c, Fact(ncur)>> : c \in res.attempted})
           /\ herrs' = IF res.err THEN 1 ELSE herrs
  /\ handled' = handled \cup {ncur}
  /\ npc' = "idle" /\ ncur' = NoEvent /\ nsubs' = {}
  /\ UNCHANGED <<now, world, subs, ch, startTime, pollerVars, hooks, consumed, emitted,
                 chanHist, known, ferrs, lcall, hookVars, faultVars, stopVars, day, lsweep,
                 traceVars, cfgVars>>

\* ------------------------------------------------------------------ system
Next ==
  \/ Tock
  \/ Create
  \/ Close
  \/ Publish
  \/ initializeRepos
  \/ pollAllRepos
  \/ Fetch
  \/ PollerStep
  \/ ServeHTTP
  \/ HandleReceive
  \/ HandleDeliver

Spec == Init /\ [][Next]_vars

\* ---------------------------------------------------------- pass specification
\* steady-state passes over two subscribed repositories, the list calls of each
\* pass written down
PassSubs == { {SubRow("A", "r1", DefaultEvents), SubRow("B", "r2", DefaultEvents)} }

InitPass == InitBase /\ subs \in PassSubs /\ hsecret = "" /\ lfaults = 0 /\ Constructed

pollAllReposTraced ==
  /\ pollAllReposStep
  /\ pcalls' = <<>>
  /\ ppast' = IF \E k \in DOMAIN pcalls : ~pcalls[k].ok THEN ppast \cup {pcalls} ELSE ppast
  /\ UNCHANGED <<backlog, qin, qout, pscans, pdrops>>

FetchTraced ==
  /\ FetchStep
  /\ pcalls' = IF ppc = "poll"
               THEN Append(pcalls, [repo |-> Head(prepos), feed |-> pfeed, ok |-> ferrs' = ferrs])
               ELSE pcalls
  /\ UNCHANGED <<ppast, backlog, qin, qout, pscans, pdrops>>

NextPass ==
  \/ Create
  \/ initializeRepos
  \/ pollAllReposTraced
  \/ FetchTraced
  \/ PollerStep

SpecPass == InitPass /\ [][NextPass]_vars

\* ------------------------------------------------------ sequence specification
\* the poll loop over two repositories, the scans it begins and finishes written down
ScanOf(pc, repos, t) ==
  IF pc \in {"init", "poll"} /\ repos # <<>> THEN {<<pc, t, Head(repos)>>} ELSE {}

\* a pass begins: its first scan is in progress
BeginScan == pscans' = pscans \cup ScanOf(ppc', prepos', ticks')
\* a step of the scanning code: the scan it belongs to goes on, or it is finished
\* and the next one of the pass, if any, begins
MoveScan == pscans' = (pscans \ ScanOf(ppc, prepos, ticks)) \cup ScanOf(ppc', prepos', ticks')

initializeReposScan ==
  /\ initializeReposStep /\ BeginScan
  /\ UNCHANGED <<pcalls, ppast, backlog, qin, qout, pdrops>>

pollAllReposScan ==
  /\ pollAllReposStep /\ BeginScan
  /\ UNCHANGED <<pcalls, ppast, backlog, qin, qout, pdrops>>

FetchScan ==
  /\ FetchStep /\ MoveScan
  /\ UNCHANGED <<pcalls, ppast, backlog, qin, qout, pdrops>>

PollerStepScan ==
  /\ PollerStepBody /\ MoveScan
  /\ UNCHANGED <<pcalls, ppast, backlog, qin, qout, pdrops>>

NextSeq ==
  \/ Create
  \/ initializeReposScan
  \/ pollAllReposScan
  \/ FetchScan
  \/ PollerStepScan

SpecSeq == InitPass /\ [][NextSeq]_vars

\* --------------------------------------------------------- retry specification
\* the system with the events the poller drops on a full channel written down,
\* each with the tick of its pass
PollerStepDrops ==
  /\ PollerStepBody
  /\ pdrops' = IF /\ ppc = "poll" /\ Head(pwork).op = "emit" /\ Len(ch) = ChanCap
                  /\ \/ ~IsEventProcessed(ledger, Head(prepos), Head(pwork).type, Head(pwork).id)
                     \/ lfaults' < lfaults
               THEN pdrops \cup {<<Fact(Head(pwork).ev), ticks>>}
               ELSE pdrops
  /\ UNCHANGED <<pcalls, ppast, backlog, qin, qout, pscans>>

NextRetry ==
  \/ Create
  \/ initializeRepos
  \/ pollAllRepos
  \/ Fetch
  \/ PollerStepDrops
  \/ ServeHTTP
  \/ HandleReceive
  \/ HandleDeliver

SpecRetry == Init /\ [][NextRetry]_vars

\* -------------------------------------------------- subscription specification
\* the poller running while chats subscribe to repositories
AttachSubs == { {SubRow("A", "r1", DefaultEvents)} }

InitAttach == InitBase /\ subs \in AttachSubs /\ hsecret = "" /\ lfaults = 0 /\ Constructed

\* INSERT ... ON CONFLICT(chat_id, repo_owner, repo_name) DO UPDATE SET events
SubscribeRow(tbl, c, r, ks) ==
  {row \in tbl : ~(row.chat = c /\ row.repo = r)} \cup {SubRow(c, r, ks)}

\* handleSubscribe: the repository is validated and the row is written; nothing
\* else is done for a repository that had no subscriber
Subscribe ==
  /\ \E c \in Chats, r \in Repos :
       /\ SubRow(c, r, DefaultEvents) \notin subs
       /\ subs' = SubscribeRow(subs, c, r, DefaultEvents)
       /\ backlog' = IF r \notin GetAllSubscribedRepos(subs) /\ ppc # "init"
                     THEN backlog \cup {i \in Present(world) : world[i].repo = r /\ ~world[i].draft}
                     ELSE backlog
  /\ UNCHANGED <<now, world, ledger, ch, startTime, pollerVars, notifierVars, hooks, emitted,
                 chanHist, known, ferrs, lcall, hookVars, faultVars, stopVars, storeVars,
                 pcalls, ppast, qin, qout, pscans, pdrops, cfgVars>>

NextAttach ==
  \/ Create
  \/ Subscribe
  \/ initializeRepos
  \/ pollAllRepos
  \/ Fetch
  \/ PollerStep

SpecAttach == InitAttach /\ [][NextAttach]_vars

\* ------------------------------------------------------ interval specification
\* NewPoller called with any configured interval; the values go past those whose
\* product with Second fits in a duration
CfgValues == -(2^DurationBits \div Second) .. (2^DurationBits \div Second)

\* main before github.NewPoller: the interval is not set yet
InitInterval ==
  /\ InitBase /\ subs \in InitSubs /\ hsecret = "" /\ lfaults = 0
  /\ world = [i \in Items |-> Absent]
  /\ cfgInterval \in CfgValues
  /\ pinterval = 0

NewPoller ==
  /\ pinterval = 0
  /\ pinterval' = NewPollerInterval(cfgInterval)
  /\ UNCHANGED <<now, world, subs, ledger, ch, startTime, pollerVars, notifierVars, hooks, emitted,
                 chanHist, known, ferrs, lcall, hookVars, faultVars, stopVars, storeVars,
                 traceVars, cfgInterval>>

NextInterval == NewPoller

SpecInterval == InitInterval /\ [][NextInterval]_vars

\* ----------------------------------------------------- retention specification
\* the system running for days, and the retention sweep called on its ledger
NextDay ==
  /\ day < MaxDays
  /\ day' = day + 1
  /\ UNCHANGED <<now, world, subs, ledger, ch, startTime, pollerVars, notifierVars, hooks, emitted,
                 chanHist, known, ferrs, lcall, hookVars, faultVars, stopVars, lstamp, lsweep,
                 traceVars, cfgVars>>

\* a call of CleanupOldEvents(daysToKeep)
Sweep ==
  /\ lsweep.calls < MaxSweeps
  /\ \E d \in -1..MaxKeep :
       LET res == CleanupOldEvents(ledger, lstamp, day, d)
       IN  /\ ledger' = res.rows
           /\ lstamp' = res.stamps
           /\ lsweep' = [calls |-> lsweep.calls + 1, days |-> d, n |-> res.n]
  /\ UNCHANGED <<now, world, subs, ch, startTime, pollerVars, notifierVars, hooks, emitted,
                 chanHist, known, ferrs, lcall, hookVars, faultVars, stopVars, day,
                 traceVars, cfgVars>>

NextRetention ==
  \/ Create
  \/ initializeRepos
  \/ pollAllRepos
  \/ Fetch
  \/ PollerStep
  \/ ServeHTTP
  \/ HandleReceive
  \/ HandleDeliver
  \/ NextDay
  \/ Sweep

SpecRetention == Init /\ [][NextRetention]_vars

\* ------------------------------------------------------ shutdown specification
\* variant: a shutdown that closes the channel before it stops the poller
ShutdownStepCloseFirst(pc) ==
  CASE pc = "run"    -> [next |-> "stop",   does |-> "close"]
    [] pc = "stop"   -> [next |-> "wait",   does |-> "cancel"]
    [] pc = "wait"   -> [next |-> "server", does |-> "join"]
    [] pc = "server" -> [next |-> "bot",    does |-> "shutdown"]
    [] pc = "bot"    -> [next |-> "return", does |-> "botstop"]
    [] pc = "return" -> [next |-> "exit",   does |-> "dbclose"]
    [] OTHER         -> [next |-> pc,       does |-> "none"]

\* main from <-sigCh on: the statement at each position and the position after it
ShutdownStep(pc) ==
  CASE pc = "run"    -> [next |-> "wait",   does |-> "cancel"]    \* poller.Stop(): p.cancel()
    [] pc = "wait"   -> [next |-> "server", does |-> "join"]      \* poller.Stop(): p.wg.Wait()
    [] pc = "server" -> [next |-> "bot",    does |-> "shutdown"]  \* server.Shutdown(ctx)
    [] pc = "bot"    -> [next |-> "close",  does |-> "botstop"]   \* bot.Stop()
    [] pc = "close"  -> [next |-> "return", does |-> "close"]     \* close(eventsCh)
    [] pc = "return" -> [next |-> "exit",   does |-> "dbclose"]   \* deferred cancel(), db.Close()
    [] OTHER         -> [next |-> pc,       does |-> "none"]

\* one statement of the shutdown sequence; wg.Wait blocks until the loop has exited
MainStep ==
  /\ ShutdownStep(mpc).does # "none"
  /\ LET st == ShutdownStep(mpc)
     IN  /\ st.does = "join" => ppc = "exited"
         /\ mpc' = st.next
         /\ pctx' = IF st.does = "cancel" THEN "cancelled" ELSE pctx
         /\ chclosed' = (chclosed \/ st.does = "close")
         /\ dbclosed' = (dbclosed \/ st.does = "dbclose")
  /\ hpc' = hpc
  /\ UNCHANGED <<now, world, subs, ledger, ch, startTime, pollerVars, notifierVars, hooks, emitted,
                 chanHist, known, ferrs, lcall, hookVars, faultVars, storeVars, traceVars, cfgVars>>

NextStop ==
  \/ Create
  \/ Close
  \/ initializeRepos
  \/ pollAllRepos
  \/ Fetch
  \/ PollerStep
  \/ pollLoopExit
  \/ MainStep

\* the poll loop is a goroutine that keeps running, its list calls return
\* (each has a 30 s timeout) and so do its database calls; main keeps running
\* once the signal has arrived
SpecStop ==
  /\ Init /\ [][NextStop]_vars
  /\ WF_vars(initializeRepos) /\ WF_vars(Fetch) /\ WF_vars(PollerStep) /\ WF_vars(pollLoopExit)
  /\ WF_vars(mpc # "run" /\ MainStep)

\* ------------------------------------------------ failing-lookup specification
\* the same system on a database that answers some IsEventProcessed calls with an error
InitFault == InitBase /\ subs \in InitSubs /\ hsecret = "" /\ lfaults = MaxLookupErrs /\ Constructed

\* commits, releases, issues and pull requests appear upstream; nothing else changes there
NextFault ==
  \/ Create
  \/ initializeRepos
  \/ pollAllRepos
  \/ Fetch
  \/ PollerStep
  \/ ServeHTTP
  \/ HandleReceive
  \/ HandleDeliver

SpecFault == InitFault /\ [][NextFault]_vars

\* ------------------------------------------------- ledger-only specification
\* RecordEvent applied to keys of both producers' formats, in any order
LedgerKeys ==
  {<<r, EventTypePush, PushID(1)>> : r \in Repos}
  \cup {<<r, EventTypeRelease, ReleaseID(1)>> : r \in Repos}
  \cup {<<r, EventTypeIssue, IssueID(1, "created")>> : r \in Repos}
  \cup {<<r, EventTypeIssue, generateEventID(Event(EventTypeIssue, r, 1, "opened", FALSE, "webhook"))>> : r \in Repos}

InitLedger ==
  /\ Init
  /\ world = [i \in Items |-> Absent]

LedgerRecord ==
  /\ \E k \in LedgerKeys :
       LET res == RecordEvent(ledger, k[1], k[2], k[3])
       IN  /\ ledger' = res.rows
           /\ lstamp' = Stamp(lstamp, ledger, k, day)
           /\ lcall' = [key |-> k, before |-> ledger, err |-> res.err,
                        n |-> Min(RowCount(ledger, k) + 1, 2)]
  /\ UNCHANGED <<now, world, subs, ch, startTime, pollerVars, notifierVars, hooks, emitted,
                 chanHist, known, ferrs, hookVars, faultVars, stopVars, day, lsweep, traceVars, cfgVars>>

NextLedger == LedgerRecord

SpecLedger == InitLedger /\ [][NextLedger]_vars

\* ---------------------------------------------- webhook endpoint specification
\* ServeHTTP applied to any request, on a handler with or without a secret
StatusOK               == 200
StatusBadRequest       == 400
StatusUnauthorized     == 401
StatusMethodNotAllowed == 405

Methods       == {"POST", "GET"}
HookTypes     == {"", "push", "release", "issues", "pull_request", "ping"}   \* X-GitHub-Event
HookActions   == {"published", "opened", "closed", "reopened", "edited"}

\* request bodies: one whose read fails, one that is not JSON, a JSON document
\* whose fields have the wrong types for the payload structs (the repository
\* object apart), and well-formed payloads with each action
Bodies ==
  {[form |-> f, action |-> ""] : f \in {"unreadable", "garbage", "mistyped"}}
  \cup {[form |-> "json", action |-> a] : a \in HookActions}

\* hmac.New(sha256.New, secret); mac.Write(body); mac.Sum(nil)
HMAC(secret, body) == <<"hmac", secret, body.form, body.action>>

\* hex strings: the digits of a byte string in either letter case, or no hex at all
HexEncode(bytes, case) == [valid |-> TRUE, case |-> case, bytes |-> bytes]
NotHex == [valid |-> FALSE, case |-> "", bytes |-> <<>>]
\* hex.DecodeString accepts both letter cases
HexDecode(h) == [ok |-> h.valid, bytes |-> IF h.valid THEN h.bytes ELSE <<>>]

\* values of the X-Hub-Signature-256 header sent along with body b
NoSignature == [prefix |-> "", hex |-> HexEncode(<<>>, "lower")]
SigsFor(b) ==
  {NoSignature, [prefix |-> "sha256=", hex |-> NotHex]}
  \cup {[prefix |-> "sha256=", hex |-> HexEncode(HMAC(WebhookSecret, b), c)] : c \in {"lower", "upper"}}
  \cup {[prefix |-> "sha256=", hex |-> HexEncode(HMAC("other", b), "lower")],
        [prefix |-> "sha256=", hex |-> HexEncode(HMAC(WebhookSecret, [form |-> "json", action |-> "forged"]), "lower")]}

Requests ==
  UNION {{[method |-> m, sig |-> g, etype |-> t, body |-> b] :
            m \in Methods, g \in SigsFor(b), t \in HookTypes} : b \in Bodies}

\* variant: a verification that checks the form of the header only
verifySignatureFormOnly(secret, body, signature) ==
  signature.prefix = "sha256=" /\ HexDecode(signature.hex).ok

verifySignature(secret, body, signature) ==
  IF signature.prefix # "sha256=" THEN FALSE
  ELSE IF ~HexDecode(signature.hex).ok THEN FALSE
  ELSE HexDecode(signature.hex).bytes = HMAC(secret, body)

\* the event parseEvent builds: owner/name and number come from the payload
HookEvent(t, a) == Event(t, "r1", 1, IF t = EventTypePush THEN "" ELSE a, FALSE, "webhook")

\* variant: a parser without the action filter on releases
parseEventAnyRelease(eventType, body) ==
  IF body.form = "garbage" THEN [err |-> TRUE, ev |-> NoEvent]
  ELSE IF eventType \in {"push", "release", "issues", "pull_request"} /\ body.form = "mistyped"
  THEN [err |-> TRUE, ev |-> NoEvent]
  ELSE CASE eventType \in {"push", "release"} ->
              [err |-> FALSE, ev |-> HookEvent(eventType, body.action)]
         [] eventType \in {"issues", "pull_request"} ->
              IF body.action \notin {"opened", "closed", "reopened"}
              THEN [err |-> FALSE, ev |-> NoEvent]
              ELSE [err |-> FALSE, ev |-> HookEvent(eventType, body.action)]
         [] OTHER -> [err |-> FALSE, ev |-> NoEvent]

\* variant: a parser that treats an unsupported event type as an error
parseEventStrictType(eventType, body) ==
  IF body.form = "garbage" THEN [err |-> TRUE, ev |-> NoEvent]
  ELSE IF eventType \in {"push", "release", "issues", "pull_request"} /\ body.form = "mistyped"
  THEN [err |-> TRUE, ev |-> NoEvent]
  ELSE CASE eventType = "push" ->
              [err |-> FALSE, ev |-> HookEvent(eventType, body.action)]
         [] eventType = "release" ->
              IF body.action # "published"
              THEN [err |-> FALSE, ev |-> NoEvent]
              ELSE [err |-> FALSE, ev |-> HookEvent(eventType, body.action)]
         [] eventType \in {"issues", "pull_request"} ->
              IF body.action \notin {"opened", "closed", "reopened"}
              THEN [err |-> FALSE, ev |-> NoEvent]
              ELSE [err |-> FALSE, ev |-> HookEvent(eventType, body.action)]
         [] OTHER -> [err |-> TRUE, ev |-> NoEvent]

\* parseEvent: [err, ev], ev = NoEvent standing for the nil event
parseEvent(eventType, body) ==
  IF body.form = "garbage" THEN [err |-> TRUE, ev |-> NoEvent]        \* base event
  ELSE IF eventType \in {"push", "release", "issues", "pull_request"} /\ body.form = "mistyped"
  THEN [err |-> TRUE, ev |-> NoEvent]                                \* typed payload
  ELSE CASE eventType = "push" ->
              [err |-> FALSE, ev |-> HookEvent(eventType, body.action)]
         [] eventType = "release" ->
              IF body.action # "published"
              THEN [err |-> FALSE, ev |-> NoEvent]
              ELSE [err |-> FALSE, ev |-> HookEvent(eventType, body.action)]
         [] eventType \in {"issues", "pull_request"} ->
              IF body.action \notin {"opened", "closed", "reopened"}
              THEN [err |-> FALSE, ev |-> NoEvent]
              ELSE [err |-> FALSE, ev |-> HookEvent(eventType, body.action)]
         [] OTHER -> [err |-> FALSE, ev |-> NoEvent]

Reply(code, c, e, q) == [status |-> code, ch |-> c, ev |-> e, queued |-> q]

\* variant: a handler that enqueues the event before it verifies the signature
ServeResultSendFirst(secret, req, c) ==
  IF req.method # "POST" THEN Reply(StatusMethodNotAllowed, c, NoEvent, FALSE)
  ELSE IF req.body.form = "unreadable" THEN Reply(StatusBadRequest, c, NoEvent, FALSE)
  ELSE IF req.etype = "" THEN Reply(StatusBadRequest, c, NoEvent, FALSE)
  ELSE LET p == parseEvent(req.etype, req.body)
           q == p.ev # NoEvent /\ Len(c) < ChanCap
           d == IF p.ev # NoEvent THEN Send(c, p.ev) ELSE c
       IN  IF p.err THEN Reply(StatusBadRequest, c, NoEvent, FALSE)
           ELSE IF secret # "" /\ ~verifySignature(secret, req.body, req.sig)
           THEN Reply(StatusUnauthorized, d, NoEvent, q)
           ELSE Reply(StatusOK, d, p.ev, q)

\* variant: a handler that reports a full channel to the sender
ServeResultBusy(secret, req, c) ==
  IF req.method # "POST" THEN Reply(StatusMethodNotAllowed, c, NoEvent, FALSE)
  ELSE IF req.body.form = "unreadable" THEN Reply(StatusBadRequest, c, NoEvent, FALSE)
  ELSE IF secret # "" /\ ~verifySignature(secret, req.body, req.sig)
  THEN Reply(StatusUnauthorized, c, NoEvent, FALSE)
  ELSE IF req.etype = "" THEN Reply(StatusBadRequest, c, NoEvent, FALSE)
  ELSE LET p == parseEvent(req.etype, req.body)
       IN  IF p.err THEN Reply(StatusBadRequest, c, NoEvent, FALSE)
           ELSE IF p.ev # NoEvent /\ Len(c) >= ChanCap
           THEN Reply(StatusBadRequest, c, p.ev, FALSE)
           ELSE IF p.ev # NoEvent THEN Reply(StatusOK, Send(c, p.ev), p.ev, TRUE)
           ELSE Reply(StatusOK, c, NoEvent, FALSE)

\* variant: a handler that reads the event type before anything else
ServeResultTypeFirst(secret, req, c) ==
  IF req.etype = "" THEN Reply(StatusBadRequest, c, NoEvent, FALSE)
  ELSE IF req.method # "POST" THEN Reply(StatusMethodNotAllowed, c, NoEvent, FALSE)
  ELSE IF req.body.form = "unreadable" THEN Reply(StatusBadRequest, c, NoEvent, FALSE)
  ELSE IF secret # "" /\ ~verifySignature(secret, req.body, req.sig)
  THEN Reply(StatusUnauthorized, c, NoEvent, FALSE)
  ELSE LET p == parseEvent(req.etype, req.body)
       IN  IF p.err THEN Reply(StatusBadRequest, c, NoEvent, FALSE)
           ELSE IF p.ev # NoEvent
           THEN Reply(StatusOK, Send(c, p.ev), p.ev, Len(c) < ChanCap)
           ELSE Reply(StatusOK, c, NoEvent, FALSE)

\* ServeHTTP: the response status, the channel after the call, the parsed
\* event and whether it was placed on the channel
ServeResult(secret, req, c) ==
  IF req.method # "POST" THEN Reply(StatusMethodNotAllowed, c, NoEvent, FALSE)
  ELSE IF req.body.form = "unreadable" THEN Reply(StatusBadRequest, c, NoEvent, FALSE)
  ELSE IF secret # "" /\ ~verifySignature(secret, req.body, req.sig)
  THEN Reply(StatusUnauthorized, c, NoEvent, FALSE)
  ELSE IF req.etype = "" THEN Reply(StatusBadRequest, c, NoEvent, FALSE)
  ELSE LET p == parseEvent(req.etype, req.body)
       IN  IF p.err THEN Reply(StatusBadRequest, c, NoEvent, FALSE)
           ELSE IF p.ev # NoEvent
           THEN Reply(StatusOK, Send(c, p.ev), p.ev, Len(c) < ChanCap)
           ELSE Reply(StatusOK, c, NoEvent, FALSE)

\* NewWebhookHandler(cfg.GitHub.WebhookSecret, eventsCh), the secret set or not
InitHook ==
  /\ InitBase /\ lfaults = 0 /\ Constructed
  /\ subs \in InitSubs
  /\ world = [i \in Items |-> Absent]
  /\ hsecret \in Secrets

ServeRequest ==
  /\ hooks < MaxRequests
  /\ \E req \in Requests :
       LET out == ServeResult(hsecret, req, ch)
       IN  /\ ch' = out.ch
           /\ hreq' = [method |-> req.method, sig |-> req.sig, etype |-> req.etype,
                       body |-> req.body, status |-> out.status, ev |-> out.ev,
                       full |-> Len(ch) >= ChanCap, queued |-> out.queued]
           /\ IF out.ev # NoEvent THEN SendHist(ch) ELSE UNCHANGED chanHist
  /\ hooks' = hooks + 1
  /\ UNCHANGED <<now, world, subs, ledger, startTime, pollerVars, notifierVars, emitted,
                 known, ferrs, lcall, hsecret, extVars>>

\* the other producer: the poller sends a push event on the shared channel
PollerSend ==
  /\ attempts <= ChanCap
  /\ ch' = Send(ch, Event(EventTypePush, "r1", 1, "", FALSE, "poller"))
  /\ SendHist(ch)
  /\ UNCHANGED <<now, world, subs, ledger, startTime, pollerVars, notifierVars, hooks, emitted,
                 known, ferrs, lcall, hookVars, extVars>>

NextHook == ServeRequest \/ PollerSend

SpecHook == InitHook /\ [][NextHook]_vars

\* ------------------------------------------------------ fan-out specification
\* HandleWebhookEvent on events of every kind, for subscribers with any filter
\* the events column: a JSON array of kinds, or text that does not parse
Filters ==
  {[ok |-> TRUE, kinds |-> ks] : ks \in {DefaultEvents, {EventTypePush}, {}}}
  \cup {[ok |-> FALSE, kinds |-> {}]}

FilterSubs ==
  { {[chat |-> "A", repo |-> "r1", events |-> fa], [chat |-> "B", repo |-> "r1", events |-> fb]} :
      fa \in Filters, fb \in Filters }

InitNotify ==
  /\ InitBase /\ lfaults = 0 /\ Constructed
  /\ world = [i \in Items |-> Absent]
  /\ subs \in FilterSubs
  /\ hsecret = ""

\* events a producer may hand over: one per kind for r1, and one for r2
ProducedEvents ==
  {Event(EventTypePush, r, 1, "", FALSE, "webhook") : r \in Repos}
  \cup {Event(EventTypeRelease, "r1", 1, "published", FALSE, "webhook"),
        Event(EventTypeIssue, "r1", 1, "opened", FALSE, "poller")}

\* a producer sends an event on the channel
Enqueue ==
  /\ attempts <= ChanCap
  /\ \E e \in ProducedEvents : ch' = Send(ch, e)
  /\ SendHist(ch)
  /\ UNCHANGED <<now, world, subs, ledger, startTime, pollerVars, notifierVars, hooks, emitted,
                 known, ferrs, lcall, hookVars, extVars>>

NextNotify == Enqueue \/ HandleReceive \/ HandleDeliver

SpecNotify == InitNotify /\ [][NextNotify]_vars

\* ---------------------------------------------------------- order specification
\* producers and the consumer on the channel, the events sent and received written down
EnqueueTraced ==
  /\ attempts <= ChanCap
  /\ \E e \in ProducedEvents :
       /\ ch' = Send(ch, e)
       /\ qin' = IF Len(ch) < ChanCap THEN Append(qin, e) ELSE qin
  /\ SendHist(ch)
  /\ UNCHANGED <<now, world, subs, ledger, startTime, pollerVars, notifierVars, hooks, emitted,
                 known, ferrs, lcall, hookVars, faultVars, stopVars, storeVars,
                 pcalls, ppast, backlog, qout, pscans, pdrops, cfgVars>>

\* for event := range eventsCh
Consume ==
  /\ HandleReceiveStep
  /\ qout' = Append(qout, Head(ch))
  /\ UNCHANGED <<pcalls, ppast, backlog, qin, pscans, pdrops>>

NextOrder == EnqueueTraced \/ Consume \/ HandleDeliver

SpecOrder == InitNotify /\ [][NextOrder]_vars

\* --------------------------------------------------------- reopen specification
\* webhook deliveries about one issue and one pull request that are closed and
\* reopened, on a database that answers some lookups with an error
ReopenEvents ==
  {Event(EventTypeIssue, "r1", 1, a, FALSE, "webhook") : a \in {"closed", "reopened"}}
  \cup {Event(EventTypePullRequest, "r1", 1, "closed", FALSE, "webhook")}

InitReopen ==
  /\ InitBase /\ lfaults = MaxLookupErrs /\ Constructed
  /\ world = [i \in Items |-> Absent]
  /\ subs \in InitSubs
  /\ hsecret = ""

\* ServeHTTP for a delivery that parses to one of these events
EnqueueReopen ==
  /\ attempts <= ChanCap
  /\ \E e \in ReopenEvents :
       /\ ch' = Send(ch, e)
       /\ qin' = IF Len(ch) < ChanCap THEN Append(qin, e) ELSE qin
  /\ SendHist(ch)
  /\ UNCHANGED <<now, world, subs, ledger, startTime, pollerVars, notifierVars, hooks, emitted,
                 known, ferrs, lcall, hookVars, faultVars, stopVars, storeVars,
                 pcalls, ppast, backlog, qout, pscans, pdrops, cfgVars>>

NextReopen == EnqueueReopen \/ Consume \/ HandleDeliver

SpecReopen == InitReopen /\ [][NextReopen]_vars

\* ---------------------------------------------------------- exit specification
\* the shutdown with a webhook request in flight and events on the channel: the
\* goroutines of the handler and of the consumer run until the process exits
Alive == mpc # "dead"

\* the server accepts a request and calls ServeHTTP, which reads the body;
\* server.Shutdown closes the listeners
ServeHTTPAccept ==
  /\ mpc \in {"run", "wait", "server"}
  /\ hpc = "idle" /\ hooks < MaxHooks
  /\ hpc' = "busy"
  /\ hooks' = hooks + 1
  /\ UNCHANGED <<now, world, subs, ledger, ch, startTime, pollerVars, notifierVars, emitted,
                 chanHist, known, ferrs, lcall, hookVars, faultVars, pctx, mpc, chclosed, dbclosed,
                 storeVars, traceVars, cfgVars>>

\* ServeHTTP from the end of io.ReadAll to the select: a send on the closed
\* channel panics (middleware.Recoverer recovers it)
ServeHTTPSend ==
  /\ Alive /\ hpc = "busy"
  /\ IF chclosed
     THEN hpc' = "panic" /\ UNCHANGED <<ch, chanHist>>
     ELSE /\ \E e \in ReopenEvents : ch' = Send(ch, e)
          /\ SendHist(ch)
          /\ hpc' = "idle"
  /\ UNCHANGED <<now, world, subs, ledger, startTime, pollerVars, notifierVars, hooks, emitted,
                 known, ferrs, lcall, hookVars, faultVars, pctx, mpc, chclosed, dbclosed,
                 storeVars, traceVars, cfgVars>>

\* main returns and the runtime ends the process, its goroutines with it
ProcessExit ==
  /\ mpc = "exit"
  /\ mpc' = "dead"
  /\ UNCHANGED <<now, world, subs, ledger, ch, startTime, pollerVars, notifierVars, hooks, emitted,
                 chanHist, known, ferrs, lcall, hookVars, faultVars, pctx, chclosed, dbclosed, hpc,
                 storeVars, traceVars, cfgVars>>

NextExit ==
  \/ Alive /\ initializeRepos
  \/ Alive /\ pollAllRepos
  \/ Alive /\ Fetch
  \/ Alive /\ PollerStep
  \/ Alive /\ pollLoopExit
  \/ ServeHTTPAccept
  \/ ServeHTTPSend
  \/ Alive /\ HandleReceive
  \/ Alive /\ HandleDeliver
  \/ MainStep
  \/ ProcessExit

SpecExit == Init /\ [][NextExit]_vars

\* ------------------------------------------------------------------ claims
PollerEvent(e)  == [e EXCEPT !.src = "poller"]
WebhookEvent(e) == [e EXCEPT !.src = "webhook"]
PushEvents == {Event(EventTypePush, r, i, "", FALSE, "webhook") : r \in Repos, i \in Items}
NotifierKeyIn(rows, e) == IsEventProcessed(rows, e.repo, e.type, generateEventID(e))

C3_ClosedExactlyOnce ==
  \A i \in Present(world) :
    (world[i].kind = EventTypeIssue /\ world[i].created < startTime
       /\ world[i].state = "closed" /\ world[i].closedAt > startTime)
    => /\ Count(emitted, <<world[i].repo, EventTypeIssue, i, "closed">>) <= 1
       /\ Count(emitted, <<world[i].repo, EventTypeIssue, i, "opened">>) = 0

\* C4: once the notifier has handled the event the poller enqueued for an item
\* created after the watch epoch, the poller does not enqueue that event again.
C4_NoReEnqueueAfterHandled ==
  [][\A e \in handled :
       (e.src = "poller" /\ world[e.num].created >= startTime)
       => Count(emitted', Fact(e)) = Count(emitted, Fact(e))]_vars

\* C5: whatever the event kind, a fact seen by both producers is notified at
\* most once to each subscriber.
C5_OncePerFact ==
  \A k \in DOMAIN sent : sent[k] <= 1

\* C6: without consumer progress the channel holds min(attempts, capacity)
\* events, the attempt after the capacity is reached is dropped, and a producer
\* that is ready to send can always take its step.
C6_DropOnFull ==
  /\ Len(ch) <= ChanCap
  /\ consumed = 0 => Len(ch) = Min(attempts, ChanCap)
  /\ (consumed = 0 /\ attempts = ChanCap + 1) => dropped = 1
  /\ (pfetched /\ pwork # <<>>) => ENABLED PollerStep
  /\ (hooks < MaxHooks /\ \E i \in Present(world) : HookEvents(world, i) # {}) => ENABLED ServeHTTP

\* capacity + 1 sends were attempted before the consumer received anything
C6_Witness ==
  /\ consumed = 0 /\ attempts = ChanCap + 1
  /\ Len(ch) = ChanCap /\ dropped = 1

\* C7: the fan-out attempts every subscriber that has the kind enabled whatever
\* the outcome of the other deliveries, then commits the key, and returns nil.
C7_PartialFailureIsolation ==
  [][(npc = "deliver" /\ npc' = "idle")
     => /\ \A row \in nsubs :
             isEventEnabled(row, ncur.type)
             => Count(tried', <<row.chat, Fact(ncur)>>)
                  = Min(Count(tried, <<row.chat, Fact(ncur)>>) + 1, 2)
        /\ NotifierKeyIn(ledger', ncur)
        /\ herrs' = herrs]_vars

\* delivery to A was attempted once and failed, B holds the notification, the
\* key is committed and no handling returned an error
C7_Witness ==
  \E e \in handled :
    /\ Count(tried, <<"A", Fact(e)>>) = 1 /\ Count(sent, <<"A", Fact(e)>>) = 0
    /\ Count(tried, <<"B", Fact(e)>>) = 1 /\ Count(sent, <<"B", Fact(e)>>) = 1
    /\ NotifierKeyIn(ledger, e)
    /\ herrs = 0

\* C8: RecordEvent on a key the table already holds leaves the table as it was
\* and returns no error.
C8_RecordIdempotent ==
  (lcall.n = 2) => (ledger = lcall.before /\ ~lcall.err)

\* the last call recorded a key that was already there
C8_Witness ==
  lcall.n = 2 /\ RowCount(ledger, lcall.key) = 1

\* C9: every committed key has the event id of the kind-specific rule: the SHA
\* for a push, "release-"+tag for a release, "issue-"+number+"-"+phase and
\* "pr-"+number+"-"+phase for issues and pull requests.
C9_KeysFollowRule ==
  LET RuleIDs(t) ==
        CASE t = EventTypePush        -> {PushID(i) : i \in Items}
          [] t = EventTypeRelease     -> {ReleaseID(i) : i \in Items}
          [] t = EventTypeIssue       ->
               {IssueID(i, ph) : i \in Items, ph \in {"created", "closed"}}
          [] t = EventTypePullRequest ->
               {PRID(i, ph) : i \in Items, ph \in {"created", "closed", "merged"}}
          [] OTHER                    -> {}
  IN  \A k \in DOMAIN ledger : k[3] \in RuleIDs(k[2])

\* C10: a steady-state step of the poller that pushes an event onto the channel
\* leaves the key it checked recorded in the ledger.
C10_EmitRecordsKey ==
  [][(ppc = "poll" /\ pfetched /\ pwork # <<>> /\ emitted' # emitted)
     => IsEventProcessed(ledger', Head(prepos), Head(pwork).type, Head(pwork).id)]_vars

\* C11: the initialization of the poller runs once and before the first tick:
\* no tick is taken while it runs, it is not entered again once it is over,
\* and none of its steps touches the channel (it only writes the ledger).
C11_SilentInitOnce ==
  [][/\ (ppc = "init" => ticks' = 0)
     /\ (ppc # "init" => ppc' # "init")
     /\ (ppc = "init" /\ pollerVars' # pollerVars)
          => (ch' = ch /\ emitted' = emitted /\ chanHist' = chanHist)]_vars

\* the initialization is over, it has written keys, and nothing was enqueued
C11_Witness ==
  /\ ppc = "wait" /\ ticks = 0
  /\ ledger # EmptyTable
  /\ emitted = <<>> /\ attempts = 0 /\ ch = <<>>

\* C22: once the context of the poller is cancelled, the poller places no
\* further event on the channel, not even from the scan that was running.
C22_NoEventAfterCancel ==
  [][(pctx = "cancelled" /\ pollerVars' # pollerVars)
     => (ch' = ch /\ emitted' = emitted /\ chanHist' = chanHist)]_vars

\* C23: after Stop is called the poll loop exits, whatever it was doing; Stop
\* returns only when the loop has exited; and once the loop has exited the
\* poller does nothing more, so nothing is enqueued after Stop has returned.
C23_StopJoinsLoop ==
  /\ (pctx = "cancelled") ~> (ppc = "exited")
  /\ [](mpc \notin {"run", "wait"} => ppc = "exited")
  /\ [][ppc = "exited" => (pollerVars' = pollerVars /\ emitted' = emitted)]_vars

\* Stop was called before the first tick, when the initialization had written
\* keys, and it has returned: the loop has exited
C23_Witness ==
  /\ mpc = "server" /\ ppc = "exited" /\ ticks = 0
  /\ ledger # EmptyTable

\* C24: the channel is closed only when the poller has been stopped, and the
\* database is closed only when the channel has been closed.
C24_ShutdownOrder ==
  /\ chclosed => (pctx = "cancelled" /\ ppc = "exited")
  /\ dbclosed => chclosed

\* the shutdown has run to its end
C24_Witness ==
  /\ mpc = "exit" /\ chclosed /\ dbclosed /\ ppc = "exited"

\* C25: a steady-state pass makes the four list calls of every subscribed
\* repository, once each, whichever of them fail; so a failed list call stops
\* neither the rest of the pass nor the scan of that repository on the next tick.
C25_FailureDoesNotAbortPass ==
  [][(ppc = "poll" /\ ppc' = "wait")
     => /\ {<<pcalls'[k].repo, pcalls'[k].feed>> : k \in DOMAIN pcalls'}
             = GetAllSubscribedRepos(subs) \X Range(Feeds)
        /\ Len(pcalls') = 4 * Cardinality(GetAllSubscribedRepos(subs))]_vars

\* the first list call of an earlier pass failed, that pass went on through the
\* other feeds of the repository and through the other repository, and the
\* pass of the next tick has listed the commits of the repository that failed
C25_Witness ==
  /\ \E P \in ppast :
       /\ Len(P) = 8 /\ ~P[1].ok /\ P[1].repo = "r1"
       /\ P[4].repo = "r1" /\ P[4].ok /\ P[5].repo = "r2" /\ P[8].ok
       /\ \E k \in DOMAIN pcalls : pcalls[k].repo = "r1" /\ pcalls[k].feed = "commits" /\ pcalls[k].ok
  /\ ticks = 2

\* C29: for a repository that gets its first subscriber when the
\* initialization is over, the poller enqueues no event that reports as new (a
\* push, a published release, an opened issue or pull request) an item that
\* was there when the subscription was made.
C29_NoBacklogOnAttach ==
  \A f \in DOMAIN emitted : f[3] \in backlog => f[4] \in {"closed", "merged"}

\* C26: a key of the ledger is still there after every step of the poller,
\* the webhook handler and the notifier; a key goes away only in a call of
\* CleanupOldEvents, and only if its row is older than the days given.
C26_KeysStayUntilSwept ==
  [][\A k \in DOMAIN ledger :
       k \notin DOMAIN ledger'
       => /\ lsweep'.calls = lsweep.calls + 1
          /\ lsweep'.days >= 0
          /\ lstamp[k] < day - lsweep'.days]_vars

\* a sweep has deleted a row and kept a younger one
C26_Witness ==
  /\ lsweep.calls = 1 /\ lsweep.n >= 1
  /\ \E k \in DOMAIN ledger : lstamp[k] >= day - lsweep.days

\* C27: the consumer receives the events in the order in which they were placed
\* on the channel, and one at a time: the events placed are those received, in
\* order, followed by those still waiting, in order; the event being handled
\* is the last one received; and an event is received only when the handling
\* of every event received before it has returned.
C27_ConsumerFIFO ==
  /\ qin = qout \o ch
  /\ npc = "deliver" => (qout # <<>> /\ ncur = qout[Len(qout)])
  /\ npc = "idle" => Range(qout) \subseteq handled

\* two different events of one repository have been handled in the order in
\* which they were sent, and a third one sent after them is waiting
C27_Witness ==
  /\ Len(qout) = 2 /\ qout[1] # qout[2] /\ qout[1].repo = qout[2].repo
  /\ qout[1] = qin[1] /\ qout[2] = qin[2]
  /\ Len(ch) = 1 /\ npc = "idle" /\ {qout[1], qout[2]} \subseteq handled

\* C28: the interval of the poller is the larger of the configured number of
\* seconds and 60 seconds, for every configured value.
C28_IntervalIsMax ==
  pinterval # 0 =>
    pinterval = (IF cfgInterval > MinIntervalSeconds THEN cfgInterval ELSE MinIntervalSeconds) * Second

C21_LookupErrorFailsOpen ==
  [][(lfaults' < lfaults)
     => /\ lerr'.by = "poller" =>
             /\ ppc = "poll" /\ pfetched /\ pwork # <<>> /\ Head(pwork).op = "emit"
             /\ IF Len(ch) < ChanCap
                THEN ch' = Append(ch, Head(pwork).ev)
                       /\ Count(emitted', Fact(Head(pwork).ev)) >= 1
                ELSE ch' = ch /\ dropped' = 1
        /\ lerr'.by = "notifier" =>
             /\ npc = "idle" /\ ch # <<>>
             /\ npc' = "deliver" /\ ncur' = Head(ch) /\ handled' = handled
             /\ nsubs' = {row \in subs : row.repo = Head(ch).repo}]_vars

\* the lookup of the notifier failed for an event, and the event was delivered
\* to a subscriber, once
C21_Witness ==
  /\ lerr.by = "notifier"
  /\ \E e \in handled :
       /\ lerr.key = <<e.repo, e.type, generateEventID(e)>>
       /\ Count(sent, <<"A", Fact(e)>>) = 1
       /\ NotifierKeyIn(ledger, e)

\* C12: every event the poller enqueues is about an item that is not
\* historical: a commit created since startTime, a published release dated
\* startTime or later, an issue or pull request created at startTime or later
\* or closed after startTime.
C12_NoHistoricalEvent ==
  \A f \in DOMAIN emitted :
    LET it == world[f[3]]
    IN  /\ it.kind = f[2] /\ it.repo = f[1]
        /\ CASE f[2] = EventTypePush    -> it.created >= startTime
             [] f[2] = EventTypeRelease -> ~it.draft /\ it.created >= startTime
             [] OTHER -> it.created >= startTime \/ it.closedAt > startTime

\* a steady-state pass has enqueued the closed event of an issue that is older
\* than startTime
C12_Witness ==
  /\ \E f \in DOMAIN emitted :
       f[2] = EventTypeIssue /\ f[4] = "closed" /\ world[f[3]].created < startTime
  /\ ticks >= 1

\* whether the signature header of the last request carries the HMAC of its
\* body under the handler's secret, in hex of either letter case
GoodSignature ==
  /\ hreq.sig.prefix = "sha256="
  /\ hreq.sig.hex.valid
  /\ hreq.sig.hex.bytes = HMAC(hsecret, hreq.body)

RecognisedTypes == {"push", "release", "issues", "pull_request"}

\* C13: the endpoint answers 405 to a non-POST request; to a POST, 400 when
\* the body cannot be read, else 401 when a secret is set and the signature
\* does not match, else 400 when the event-type header is missing or the body
\* is malformed, and 200 in every other case.
C13_StatusCodes ==
  hreq # NoRequest =>
    LET malformed == \/ hreq.body.form = "garbage"
                     \/ hreq.etype \in RecognisedTypes /\ hreq.body.form = "mistyped"
    IN  hreq.status =
          (IF hreq.method # "POST" THEN StatusMethodNotAllowed
           ELSE IF hreq.body.form = "unreadable" THEN StatusBadRequest
           ELSE IF hsecret # "" /\ ~GoodSignature THEN StatusUnauthorized
           ELSE IF hreq.etype = "" \/ malformed THEN StatusBadRequest
           ELSE StatusOK)

\* a well-formed push delivery with a wrong signature was answered 401
C13_Witness ==
  /\ hsecret # "" /\ hreq.method = "POST" /\ ~GoodSignature
  /\ hreq.etype = "push" /\ hreq.body.form = "json"
  /\ hreq.status = StatusUnauthorized

\* C14: a request answered with another status than 200 leaves the channel
\* and the ledger as they were.
C14_RejectedHasNoEffect ==
  [][(hooks' # hooks /\ hreq'.status # StatusOK)
     => (ch' = ch /\ ledger' = ledger /\ chanHist' = chanHist /\ ~hreq'.queued)]_vars

\* a correctly signed request without event-type header was rejected after the
\* signature check, with a channel that had room
C14_Witness ==
  /\ hsecret # "" /\ GoodSignature /\ hreq.etype = "" /\ hreq.body.form = "json"
  /\ hreq.status = StatusBadRequest
  /\ ~hreq.full /\ ch = <<>> /\ attempts = 0 /\ ledger = EmptyTable

\* C15: with a secret set, an event is enqueued only for a request whose
\* signature header is sha256= followed by the hex HMAC of the body under
\* the secret; with no secret, a request that parses to an event is enqueued
\* whatever its signature header.
C15_SignatureGate ==
  /\ (hsecret # "" /\ hreq.queued) => GoodSignature
  /\ (hsecret = "" /\ hreq.method = "POST" /\ hreq.body.form # "unreadable"
        /\ hreq.etype # "" /\ parseEvent(hreq.etype, hreq.body).ev # NoEvent /\ ~hreq.full)
     => hreq.queued

\* no secret is set and a request without signature header enqueued its event
C15_Witness ==
  /\ hsecret = "" /\ hreq.sig = NoSignature
  /\ hreq.queued /\ hreq.ev \in Range(ch)

\* C16: a request that is accepted yields an event exactly for a push, a
\* release with action published, and an issue or pull request with action
\* opened, closed or reopened; the event has the type and action of the request.
C16_AllowList ==
  hreq # NoRequest =>
    LET a == hreq.body.action
        allowed == \/ hreq.etype = "push"
                   \/ hreq.etype = "release" /\ a = "published"
                   \/ hreq.etype \in {"issues", "pull_request"} /\ a \in {"opened", "closed", "reopened"}
    IN  /\ hreq.status = StatusOK =>
             /\ (hreq.ev # NoEvent) <=> allowed
             /\ hreq.ev # NoEvent =>
                  /\ hreq.ev.type = hreq.etype
                  /\ hreq.etype # "push" => hreq.ev.action = a
        /\ hreq.status # StatusOK => hreq.ev = NoEvent

\* a pull_request delivery with action reopened produced an event, placed on the channel
C16_Witness ==
  /\ hreq.status = StatusOK /\ hreq.etype = "pull_request" /\ hreq.body.action = "reopened"
  /\ hreq.ev # NoEvent /\ hreq.queued

\* C17 as stated: a request that passes the signature check with an
\* unrecognized event type, whatever its body, or with a disallowed action, is
\* answered 200 and enqueues nothing.
C17_IgnoredWhateverBody ==
  LET passes == hreq.method = "POST" /\ hreq.body.form # "unreadable"
                  /\ (hsecret = "" \/ GoodSignature)
      unrecognised == hreq.etype \notin RecognisedTypes \cup {""}
      disallowed == /\ hreq.body.form = "json"
                    /\ \/ hreq.etype = "release" /\ hreq.body.action # "published"
                       \/ hreq.etype \in {"issues", "pull_request"}
                            /\ hreq.body.action \notin {"opened", "closed", "reopened"}
  IN  (hreq # NoRequest /\ passes /\ (unrecognised \/ disallowed))
      => (hreq.status = StatusOK /\ hreq.ev = NoEvent /\ ~hreq.queued)

\* C17 amended: the same for every such request whose body is a JSON document
\* (with a decodable repository object); a body that is not JSON is answered
\* 400 whatever the event type.
C17_IgnoredWhenDecodable ==
  LET passes == hreq.method = "POST" /\ hreq.body.form # "unreadable"
                  /\ (hsecret = "" \/ GoodSignature)
      unrecognised == hreq.etype \notin RecognisedTypes \cup {""}
      disallowed == /\ hreq.body.form = "json"
                    /\ \/ hreq.etype = "release" /\ hreq.body.action # "published"
                       \/ hreq.etype \in {"issues", "pull_request"}
                            /\ hreq.body.action \notin {"opened", "closed", "reopened"}
  IN  /\ (hreq # NoRequest /\ passes /\ hreq.body.form # "garbage" /\ (unrecognised \/ disallowed))
         => (hreq.status = StatusOK /\ hreq.ev = NoEvent /\ ~hreq.queued)
      /\ (hreq # NoRequest /\ passes /\ hreq.body.form = "garbage" /\ hreq.etype # "")
         => (hreq.status = StatusBadRequest /\ ~hreq.queued)

\* a correctly signed ping whose body is JSON of another shape was ignored
C17_Witness ==
  /\ hsecret # "" /\ GoodSignature /\ hreq.method = "POST"
  /\ hreq.etype = "ping" /\ hreq.body.form = "mistyped"
  /\ hreq.status = StatusOK /\ ~hreq.queued /\ Len(ch) < ChanCap

\* C18: when the channel is full and a request has passed every check and
\* parsed to an event, the handler leaves the channel as it is, counts the
\* drop and answers 200.
C18_FullChannelStill200 ==
  [][(/\ hooks' # hooks /\ Len(ch) >= ChanCap
      /\ hreq'.method = "POST" /\ hreq'.body.form # "unreadable"
      /\ (hsecret = "" \/ (hreq'.sig.prefix = "sha256=" /\ hreq'.sig.hex.valid
                             /\ hreq'.sig.hex.bytes = HMAC(hsecret, hreq'.body)))
      /\ hreq'.etype # "" /\ parseEvent(hreq'.etype, hreq'.body).ev # NoEvent)
     => (ch' = ch /\ hreq'.status = StatusOK /\ ~hreq'.queued /\ dropped' = 1)]_vars

\* the last request parsed to an event while the channel was full: the event
\* was dropped, the answer was 200 and the request was served
C18_Witness ==
  /\ hreq.full /\ hreq.ev # NoEvent /\ hreq.status = StatusOK /\ ~hreq.queued
  /\ hooks = 1 /\ dropped = 1 /\ Len(ch) = ChanCap /\ hreq.ev \notin Range(ch)

\* C19: when the notifier receives an event of a repository without
\* subscribers, the handling returns at once and changes nothing: no ledger
\* record, no delivery attempt, no error.
C19_NoSubscribersNoEffect ==
  [][(/\ npc = "idle" /\ ch # <<>> /\ ch' = Tail(ch) /\ consumed' = 1
      /\ {row \in subs : row.repo = Head(ch).repo} = {})
     => (/\ npc' = "idle" /\ Head(ch) \in handled'
         /\ ledger' = ledger /\ sent' = sent /\ tried' = tried /\ herrs' = herrs)]_vars

\* an event of r2, which nobody subscribes to, has been handled and left no trace
C19_Witness ==
  /\ \E e \in handled : e.repo = "r2"
  /\ \A k \in DOMAIN ledger : k[1] # "r2"
  /\ \A k \in DOMAIN tried : k[2][1] # "r2"
  /\ herrs = 0 /\ npc = "idle"

\* C20: the fan-out of an event that is not in the ledger attempts one
\* delivery to every subscriber of the repository whose filter parses and
\* holds the kind, none to a subscriber whose filter parses and lacks it, and
\* none to anybody else.
C20_FanOutByFilter ==
  [][(npc = "deliver" /\ npc' = "idle")
     => /\ \A row \in nsubs :
             LET k == <<row.chat, Fact(ncur)>>
             IN  row.events.ok =>
                   Count(tried', k) = IF ncur.type \in row.events.kinds
                                      THEN Min(Count(tried, k) + 1, 2)
                                      ELSE Count(tried, k)
        /\ \A k \in DOMAIN tried' :
             (k[2] # Fact(ncur) \/ k[1] \notin {row.chat : row \in nsubs})
             => (k \in DOMAIN tried /\ tried'[k] = tried[k])]_vars

\* a release was fanned out: one attempt for A, whose filter holds releases,
\* and none for B, whose filter parses and holds pushes only
C20_Witness ==
  \E e \in handled :
    /\ e.type = EventTypeRelease
    /\ Count(tried, <<"A", Fact(e)>>) = 1 /\ Count(tried, <<"B", Fact(e)>>) = 0
    /\ \E row \in subs : row.chat = "B" /\ row.events.ok /\ row.events.kinds = {EventTypePush}
    /\ NotifierKeyIn(ledger, e)

\* C31: for a pull request created before the watch epoch, a steady-state list
\* that shows it closed after the epoch yields one operation for it, with the
\* key pr-N-merged and the action merged when it reports merged, and with the
\* key pr-N-closed and the action closed otherwise; when that key is not in the
\* ledger and the channel has room the event is enqueued; and the poller never
\* enqueues the other action, nor opened, for it.
C31_OldPRMergedOrClosed ==
  [][\A i \in Present(world) :
       (world[i].kind = EventTypePullRequest /\ world[i].created < startTime)
       => LET r     == world[i].repo
              term  == IF world[i].merged THEN "merged" ELSE "closed"
              other == IF world[i].merged THEN "closed" ELSE "merged"
              op    == EmitOp(EventTypePullRequest, PRID(i, term),
                              Event(EventTypePullRequest, r, i, term, world[i].merged, "poller"))
          IN  /\ Count(emitted', <<r, EventTypePullRequest, i, "opened">>) = 0
              /\ Count(emitted', <<r, EventTypePullRequest, i, other>>) = 0
              /\ (/\ ppc = "poll" /\ ~pfetched /\ pfeed = "prs" /\ Head(prepos) = r
                  /\ pollerVars' # pollerVars /\ ferrs' = ferrs
                  /\ world[i].state = "closed" /\ world[i].closedAt > startTime)
                 => SelectSeq(pwork', LAMBDA o : o.ev.num = i) = <<op>>
              /\ (/\ ppc = "poll" /\ pfetched /\ pwork # <<>> /\ Head(pwork) = op
                  /\ pollerVars' # pollerVars
                  /\ ~IsEventProcessed(ledger, r, EventTypePullRequest, PRID(i, term))
                  /\ Len(ch) < ChanCap)
                 => /\ ch' = Append(ch, op.ev)
                    /\ Count(emitted', <<r, EventTypePullRequest, i, term>>) >= 1]_vars

\* a pull request older than the poller was merged after the epoch, and a tick
\* has enqueued the merged event for it
C31_Witness ==
  \E i \in Present(world) :
    /\ world[i].kind = EventTypePullRequest /\ world[i].created < startTime
    /\ world[i].state = "closed" /\ world[i].merged /\ world[i].closedAt > startTime
    /\ Count(emitted, <<world[i].repo, EventTypePullRequest, i, "merged">>) >= 1
    /\ Count(emitted, <<world[i].repo, EventTypePullRequest, i, "closed">>) = 0

\* C32: whenever the poller, in steady state, attempts to enqueue an event, the
\* key it looked up is the key derived from the item (the SHA, release-TAG,
\* issue-N-created or -closed, pr-N-created, -closed or -merged), and at its
\* check either that key was not in the ledger or the lookup failed.
C32_EnqueueOnlyWhenKeyAbsent ==
  [][(ppc = "poll" /\ pollerVars' # pollerVars /\ chanHist' # chanHist)
     => LET op  == Head(pwork)
            e   == op.ev
            key == CASE e.type = EventTypePush    -> SHA(e.num)
                     [] e.type = EventTypeRelease -> <<"release-">> \o Tag(e.num)
                     [] e.type = EventTypeIssue   ->
                          <<"issue-", NumStr(e.num), "-",
                            IF e.action = "opened" THEN "created" ELSE e.action>>
                     [] OTHER ->
                          <<"pr-", NumStr(e.num), "-",
                            IF e.action = "opened" THEN "created" ELSE e.action>>
        IN  /\ pfetched /\ pwork # <<>> /\ op.op = "emit"
            /\ op.id = key /\ op.type = e.type /\ e.repo = Head(prepos)
            /\ \/ RowCount(ledger, <<e.repo, e.type, key>>) = 0
               \/ lfaults' < lfaults]_vars

\* the lookup of the poller failed for a commit whose key the initialization
\* had seeded, and the push event was enqueued
C32_Witness ==
  /\ lerr.by = "poller"
  /\ RowCount(ledger, lerr.key) > 0
  /\ \E i \in Present(world) :
       /\ world[i].kind = EventTypePush
       /\ lerr.key = <<world[i].repo, EventTypePush, SHA(i)>>
       /\ Count(emitted, <<world[i].repo, EventTypePush, i, "">>) >= 1

\* C33: at most one repository scan of the poller is in progress at any time,
\* and it is the scan of the pass the loop is in; between passes none is; and a
\* pass (the initialization or a tick) begins only when no scan is in progress.
C33_PassesSequential ==
  /\ [](/\ Cardinality(pscans) <= 1
        /\ pscans = ScanOf(ppc, prepos, ticks)
        /\ ppc = "wait" => pscans = {})
  /\ [][(ticks' # ticks \/ (pfeed = "start" /\ pfeed' # "start")) => pscans = {}]_vars

\* the second tick is scanning the second repository of its pass, and no other
\* scan is in progress
C33_Witness ==
  /\ ppc = "poll" /\ ticks = 2 /\ Len(prepos) = 1
  /\ pscans = {<<"poll", 2, Head(prepos)>>}
  /\ pfetched /\ pwork # <<>>

\* C36 as stated: a send of the poller that is dropped on a full channel changes
\* neither the ledger nor the channel; a later pass whose list still shows the
\* item builds the same event for it; and when the poller comes to that event
\* it attempts the send again (the event is enqueued, or dropped once more).
C36_DroppedIsRetried ==
  [][/\ \A d \in pdrops' \ pdrops : ledger' = ledger /\ ch' = ch /\ emitted' = emitted
     /\ (ppc = "poll" /\ ~pfetched /\ pollerVars' # pollerVars /\ ferrs' = ferrs)
        => \A d \in pdrops :
             (/\ d[2] < ticks /\ d[1][1] = Head(prepos)
              /\ d[1][3] \in CASE pfeed = "commits"  -> Range(ListCommits(world, Head(prepos), startTime, PollCommitsPerPage))
                               [] pfeed = "releases" -> Range(ListReleases(world, Head(prepos), PollReleasesPerPage))
                               [] pfeed = "issues"   -> {i \in Range(ListIssues(world, Head(prepos), startTime, PollIssuesPerPage)) :
                                                          world[i].kind = EventTypeIssue}
                               [] OTHER              -> Range(ListPRs(world, Head(prepos), PollPRsPerPage))
              /\ d[1][2] = world[d[1][3]].kind)
             => \E k \in DOMAIN pwork' : pwork'[k].op = "emit" /\ Fact(pwork'[k].ev) = d[1]
     /\ (/\ ppc = "poll" /\ pfetched /\ pwork # <<>> /\ pollerVars' # pollerVars
         /\ \E d \in pdrops : d[1] = Fact(Head(pwork).ev) /\ d[2] < ticks)
        => IF Len(ch) < ChanCap
           THEN ch' = Append(ch, Head(pwork).ev)
           ELSE <<Fact(Head(pwork).ev), ticks>> \in pdrops']_vars

\* C36, amended: the same, where the poller attempts the send again unless the
\* key of the event has been recorded in the meantime and its lookup reports it.
C36_DroppedIsRetriedUnlessRecorded ==
  [][/\ \A d \in pdrops' \ pdrops : ledger' = ledger /\ ch' = ch /\ emitted' = emitted
     /\ (ppc = "poll" /\ ~pfetched /\ pollerVars' # pollerVars /\ ferrs' = ferrs)
        => \A d \in pdrops :
             (/\ d[2] < ticks /\ d[1][1] = Head(prepos)
              /\ d[1][3] \in CASE pfeed = "commits"  -> Range(ListCommits(world, Head(prepos), startTime, PollCommitsPerPage))
                               [] pfeed = "releases" -> Range(ListReleases(world, Head(prepos), PollReleasesPerPage))
                               [] pfeed = "issues"   -> {i \in Range(ListIssues(world, Head(prepos), startTime, PollIssuesPerPage)) :
                                                          world[i].kind = EventTypeIssue}
                               [] OTHER              -> Range(ListPRs(world, Head(prepos), PollPRsPerPage))
              /\ d[1][2] = world[d[1][3]].kind)
             => \E k \in DOMAIN pwork' : pwork'[k].op = "emit" /\ Fact(pwork'[k].ev) = d[1]
     /\ (/\ ppc = "poll" /\ pfetched /\ pwork # <<>> /\ pollerVars' # pollerVars
         /\ \E d \in pdrops : d[1] = Fact(Head(pwork).ev) /\ d[2] < ticks
         /\ ~IsEventProcessed(ledger, Head(prepos), Head(pwork).type, Head(pwork).id))
        => IF Len(ch) < ChanCap
           THEN ch' = Append(ch, Head(pwork).ev)
           ELSE <<Fact(Head(pwork).ev), ticks>> \in pdrops']_vars

\* the first tick dropped the event of an issue, and the second tick enqueued it
C36_Witness ==
  \E i \in Present(world) :
    LET f == <<world[i].repo, EventTypeIssue, i, "opened">>
    IN  /\ world[i].kind = EventTypeIssue
        /\ <<f, 1>> \in pdrops /\ <<f, 2>> \notin pdrops
        /\ ticks = 2 /\ Count(emitted, f) = 1
        /\ ~IsEventProcessed(ledger, world[i].repo, EventTypeIssue, IssueID(i, "created"))

\* C37 as stated: when a steady-state pass comes to an item that was created
\* at or after startTime, that the initialization listed (and so seeded) and
\* that has not changed since, it makes no send for it.
C37_SeededNeverEnqueued ==
  [][\A i \in known :
       (/\ world[i].created >= startTime
        /\ ppc = "poll" /\ pfetched /\ pwork # <<>> /\ pollerVars' # pollerVars
        /\ Head(pwork).op = "emit" /\ Head(pwork).ev.num = i)
       => (ch' = ch /\ chanHist' = chanHist /\ emitted' = emitted)]_vars

\* C37, amended: the same, unless the lookup of the seeded key fails.
C37_SeededNeverEnqueuedUnlessLookupFails ==
  [][\A i \in known :
       (/\ world[i].created >= startTime
        /\ ppc = "poll" /\ pfetched /\ pwork # <<>> /\ pollerVars' # pollerVars
        /\ Head(pwork).op = "emit" /\ Head(pwork).ev.num = i
        /\ lfaults' = lfaults)
       => (ch' = ch /\ chanHist' = chanHist /\ emitted' = emitted)]_vars

\* an issue was opened after the poller was constructed and before the
\* initialization listed it; its created key was seeded, a tick has scanned the
\* repository with no lookup failing, and nothing was enqueued
C37_Witness ==
  \E i \in known :
    /\ world[i].kind = EventTypeIssue /\ world[i].created >= startTime
    /\ IsEventProcessed(ledger, world[i].repo, EventTypeIssue, IssueID(i, "created"))
    /\ ticks >= 1 /\ ppc = "wait"
    /\ emitted = <<>> /\ attempts = 0
    /\ lerr = NoLookupErr

\* C38 as stated: no subscriber is sent two notifications for one repository,
\* issue or pull-request number and action; and an issue or pull-request event
\* whose key (N-action) is in the ledger when the notifier receives it is
\* handled as already processed: nothing is sent or tried for it.
C38_OncePerAction ==
  /\ [](\A k \in DOMAIN sent :
          k[2][2] \in {EventTypeIssue, EventTypePullRequest} => sent[k] <= 1)
  /\ [][(/\ npc = "idle" /\ ch # <<>> /\ notifierVars' # notifierVars
         /\ Head(ch).type \in {EventTypeIssue, EventTypePullRequest}
         /\ NotifierKeyIn(ledger, Head(ch)))
        => (/\ npc' = "idle" /\ sent' = sent /\ tried' = tried
            /\ handled' = handled \cup {Head(ch)})]_vars

\* C38, amended: the same as long as no lookup of the notifier has failed; and
\* every handling that sends a notification leaves the key of its event in
\* the ledger.
C38_OncePerActionUnlessLookupFails ==
  /\ [](lerr = NoLookupErr =>
          \A k \in DOMAIN sent :
            k[2][2] \in {EventTypeIssue, EventTypePullRequest} => sent[k] <= 1)
  /\ [][/\ (/\ npc = "idle" /\ ch # <<>> /\ notifierVars' # notifierVars
             /\ Head(ch).type \in {EventTypeIssue, EventTypePullRequest}
             /\ NotifierKeyIn(ledger, Head(ch))
             /\ lfaults' = lfaults)
            => (/\ npc' = "idle" /\ sent' = sent /\ tried' = tried
                /\ handled' = handled \cup {Head(ch)})
        /\ (npc = "deliver" /\ npc' = "idle") => NotifierKeyIn(ledger', ncur)]_vars

\* the deliveries closed, reopened, closed of one issue have been handled with
\* no lookup failing, and each subscriber was sent the closed notification once
C38_Witness ==
  LET closed   == Event(EventTypeIssue, "r1", 1, "closed", FALSE, "webhook")
      reopened == Event(EventTypeIssue, "r1", 1, "reopened", FALSE, "webhook")
  IN  /\ qout = <<closed, reopened, closed>>
      /\ npc = "idle" /\ ch = <<>>
      /\ lerr = NoLookupErr
      /\ Count(sent, <<"A", Fact(closed)>>) = 1 /\ Count(sent, <<"B", Fact(closed)>>) = 1
      /\ Count(sent, <<"A", Fact(reopened)>>) = 1

\* C34: once the channel is closed no producer can send on it: no webhook
\* request is in flight before its enqueue step, the poll loop has exited, and
\* no send on the closed channel ever happens.
C34_NoProducerAfterClose ==
  /\ chclosed => (hpc = "idle" /\ ppc = "exited")
  /\ hpc # "panic"

\* C35: once the database is closed no handling of the consumer is in
\* progress, and the consumer makes no RecordEvent or IsEventProcessed call:
\* an event on the channel at the close has been handled to its end by then,
\* or its handling never reaches the ledger.
C35_NoLedgerCallAfterDbClose ==
  /\ [](dbclosed => npc = "idle")
  /\ [][dbclosed => ~(npc = "deliver" /\ npc' = "idle")]_vars

====
